---------------------------- MODULE Spec2Model ----------------------------
(***************************************************************************)
(* Reference/snapshot lifecycle of the Android UI agent:                   *)
(* src/src/core/ref_system.py (ElementInfo, _parse_bounds, Snapshot,       *)
(* SnapshotManager) and the ref errors of src/src/core/exceptions.py.      *)
(*                                                                         *)
(* Device connection cache: src/src/core/device_manager.py, and the tool    *)
(* error wrapper of src/src/tools/_errors.py.                              *)
(*                                                                         *)
(* Strings that the code only compares (snapshot device ids, ref ids) are  *)
(* TLA+ strings.  A string that the code scans (a bounds attribute, a text, *)
(* a device serial) is a sequence of one-character strings.                *)
(***************************************************************************)
EXTENDS Integers, Sequences, FiniteSets, TLC

VARIABLES
    _snapshots,        \* SnapshotManager._snapshots: device_id -> (snapshot_id -> Snapshot)
    _snapshot_order,   \* SnapshotManager._snapshot_order: device_id -> deque of snapshot_id
    _current,          \* SnapshotManager._current: device_id -> snapshot_id
    _lock,             \* SnapshotManager._lock: the thread holding it, or NoThread
    _max_snapshots,    \* SnapshotManager._max_snapshots (constructor argument)
    _default_stale_seconds, \* SnapshotManager._default_stale_seconds (constructor argument)
    now,               \* the clock read by time.time()
    uuid_counter,      \* number of uuid4() values handed out so far
    pc,                \* per thread: the place it has reached in the call it is running
    frame,             \* per thread: arguments and locals of the call it is running
    result,            \* per thread: what the call that finished in the last step
                       \* returned or raised; NoResult otherwise
    completed,         \* history: per device, the ids of the create_snapshot calls that
                       \* returned since the device's last invalidate / clear_all
    last_seen,         \* history: per device, what get_current_snapshot returned last
                       \* (reset by a create_snapshot for the device)
    last_seen_valid,   \* as last_seen, but also reset by invalidate and clear_all
    source_of,         \* history: snapshot id -> the document create_snapshot was given
    p_doc,             \* the document handed to _parse_hierarchy on its own
    p_out,             \* what _parse_hierarchy returned for p_doc
    _cache,            \* DeviceManager._cache: cache key -> CachedDevice
    _cache_lock,       \* DeviceManager._cache_lock: the thread holding it, or NoThread
    _selected_device,  \* DeviceManager._selected_device: None or a device id
    handle_counter,    \* number of u2.connect() calls that returned a device so far
    watcher_running,   \* WatcherManager._running[device_id] of the one device watched
    watcher_loops,     \* the _watcher_loop threads started for it, in the order of start
    monitor_running,   \* PerformanceMonitor._running[session_id] of the one session
    monitor_loop,      \* the _monitor_loop thread of the session, or NoLoop
    _sessions,         \* PerformanceMonitor._sessions, in insertion order, each session
                       \* with its _running flag and its _monitor_loop thread
    _poll_interval,    \* PerformanceMonitor._poll_interval
    session_counter,   \* number of session ids made by uuid4() so far
    _recordings,       \* RecordingManager._recordings, in insertion order
    _active,           \* RecordingManager._active: device id -> recording id
    rec_counter        \* number of recording ids made by uuid4() so far

smVars == <<_snapshots, _snapshot_order, _current, _lock, _max_snapshots,
            _default_stale_seconds, now, uuid_counter, pc, frame, result,
            completed, last_seen, last_seen_valid, source_of>>
parseVars == <<p_doc, p_out>>
dmVars == <<_cache, _cache_lock, _selected_device, handle_counter>>
watcherVars == <<watcher_running, watcher_loops>>
sessionVars == <<_sessions, _poll_interval, session_counter>>
monitorVars == <<monitor_running, monitor_loop, sessionVars>>
recVars == <<_recordings, _active, rec_counter>>
toolVars == <<watcherVars, monitorVars, recVars>>
vars == <<smVars, parseVars, dmVars, toolVars>>

-----------------------------------------------------------------------------
(* Python values *)

\* the snapshot id of no snapshot (ids are tuples)
NoId == <<>>

Min(a, b) == IF a < b THEN a ELSE b

\* max(1, self._max_snapshots)
MaxOf(a, b) == IF a > b THEN a ELSE b

Digits == <<"0", "1", "2", "3", "4", "5", "6", "7", "8", "9">>

IsDigit(c) == \E i \in 1..10 : Digits[i] = c

DigitVal(c) == (CHOOSE i \in 1..10 : Digits[i] = c) - 1

\* str(n) of a non-negative int, as characters; a negative one gets its sign
RECURSIVE DecChars(_)
DecChars(n) ==
    IF n < 0 THEN <<"-">> \o DecChars(0 - n)
    ELSE IF n < 10 THEN <<Digits[n + 1]>>
    ELSE DecChars(n \div 10) \o <<Digits[(n % 10) + 1]>>

\* the same text as one string
RECURSIVE DecStr(_)
DecStr(n) ==
    IF n < 10 THEN Digits[n + 1]
    ELSE DecStr(n \div 10) \o Digits[(n % 10) + 1]

\* int(s) of a run of digits
RECURSIVE IntOfDigits(_)
IntOfDigits(s) ==
    IF Len(s) = 0 THEN 0
    ELSE 10 * IntOfDigits(SubSeq(s, 1, Len(s) - 1)) + DigitVal(s[Len(s)])

\* _BOUNDS_RE.findall(s) with _BOUNDS_RE = \d+ : the maximal runs of digits of s,
\* left to right.  run is the run being read, found the runs already closed.
RECURSIVE FindAllDigitRuns(_, _, _, _)
FindAllDigitRuns(s, i, run, found) ==
    IF i > Len(s)
    THEN IF Len(run) > 0 THEN Append(found, run) ELSE found
    ELSE IF IsDigit(s[i])
         THEN FindAllDigitRuns(s, i + 1, Append(run, s[i]), found)
         ELSE FindAllDigitRuns(s, i + 1, <<>>,
                               IF Len(run) > 0 THEN Append(found, run) ELSE found)

\* _parse_bounds: the first four digit runs as ints, (0,0,0,0) when there are fewer
_parse_bounds(bounds_str) ==
    LET match == FindAllDigitRuns(bounds_str, 1, <<>>, <<>>)
    IN  IF Len(match) >= 4
        THEN <<IntOfDigits(match[1]), IntOfDigits(match[2]),
               IntOfDigits(match[3]), IntOfDigits(match[4])>>
        ELSE <<0, 0, 0, 0>>

\* ElementInfo.center
center(element) ==
    <<(element.bounds[1] + element.bounds[3]) \div 2,
      (element.bounds[2] + element.bounds[4]) \div 2>>

-----------------------------------------------------------------------------
(* Hierarchy documents.  A parsed document is ElementTree's element graph:  *)
(* elements 1..n, element 1 the root, par[j] the parent of element j        *)
(* (par[1] = 0, par[j] < j), the children of an element in document order   *)
(* being its children by increasing number.  bounds[j] is the text of       *)
(* element j's bounds attribute, Absent when it has none.  A text that      *)
(* fromstring rejects is the document Malformed.                            *)

Absent == <<"(absent)">>

Chars_LB == <<"[">>
Chars_RB == <<"]">>
Chars_Comma == <<",">>

\* the bounds attribute a hierarchy dump writes for the rectangle r: "[l,t][r,b]"
BoundsStr(r) ==
    Chars_LB \o DecChars(r[1]) \o Chars_Comma \o DecChars(r[2]) \o Chars_RB \o
    Chars_LB \o DecChars(r[3]) \o Chars_Comma \o DecChars(r[4]) \o Chars_RB

Malformed == [tag |-> "(malformed)", par |-> <<0>>, bounds |-> <<Absent>>]

DocSize(doc) == Len(doc.bounds)

\* `for child in node`: the children of an element, in document order
Children(doc, node) ==
    SelectSeq([j \in 1..DocSize(doc) |-> j], LAMBDA j : doc.par[j] = node)

\* attrib.get("bounds", "[0,0][0,0]")
BoundsAttr(doc, node) ==
    IF doc.bounds[node] = Absent THEN BoundsStr(<<0, 0, 0, 0>>) ELSE doc.bounds[node]

-----------------------------------------------------------------------------
(* A Python dict that keeps insertion order: a sequence of [key, value].   *)

DictHas(d, k) == \E i \in 1..Len(d) : d[i].key = k

DictGet(d, k) == d[CHOOSE i \in 1..Len(d) : d[i].key = k].value

DictSet(d, k, v) ==
    IF DictHas(d, k)
    THEN [i \in 1..Len(d) |-> IF d[i].key = k THEN [key |-> k, value |-> v] ELSE d[i]]
    ELSE Append(d, [key |-> k, value |-> v])

\* list(d.keys())
DictKeys(d) == [i \in 1..Len(d) |-> d[i].key]

\* f"e{next(counter)}"
RefName(n) == "e" \o DecStr(n)

\* Optional values: None is NoValue, a value x is Some(x)
NoValue == <<>>
Some(x) == <<x>>

\* the attributes of an element that has none of those that matches() reads
NoAttrs ==
    [text |-> NoValue, resource_id |-> NoValue, class |-> NoValue,
     content_desc |-> NoValue, clickable |-> NoValue, enabled |-> NoValue]

\* node.attrib: a document may give its elements attributes (attrs[j] is a record
\* like NoAttrs, an attribute that is present being Some(its text))
Attrib(doc, node) == IF "attrs" \in DOMAIN doc THEN doc.attrs[node] ELSE NoAttrs

\* attrib.get(name) or None: an empty attribute counts as none
OrNone(a) == IF a = NoValue \/ a = Some(<<>>) THEN NoValue ELSE a

\* the ElementInfo built for a node (the fields that lookups and matches() use)
ElementInfo(ref, bounds, attrib) ==
    [ref |-> ref,
     bounds |-> bounds,
     class_name |-> IF attrib.class = NoValue THEN <<"n", "o", "d", "e">>
                    ELSE attrib.class[1],
     resource_id |-> OrNone(attrib.resource_id),
     text |-> OrNone(attrib.text),
     content_desc |-> OrNone(attrib.content_desc),
     clickable |-> (attrib.clickable = Some("true")),
     enabled |-> (attrib.enabled = NoValue \/ attrib.enabled = Some("true"))]

RECURSIVE traverse(_, _, _)
RECURSIVE traverse_children(_, _, _, _)

\* a faulty traverse that does not visit the children of a node it gives no ref
traverse_skipping_subtree(doc, node, st) ==
    LET bounds == _parse_bounds(BoundsAttr(doc, node))
    IN  IF bounds # <<0, 0, 0, 0>>
        THEN traverse_children(doc, Children(doc, node), 1,
                 [refs |-> DictSet(st.refs, RefName(st.counter),
                                   ElementInfo(RefName(st.counter), bounds,
                                               Attrib(doc, node))),
                  counter |-> st.counter + 1])
        ELSE st

\* traverse(node) inside _parse_hierarchy; st is the closure's state: the refs
\* dict and the counter
traverse(doc, node, st) ==
    LET bounds == _parse_bounds(BoundsAttr(doc, node))
        st1 == IF bounds # <<0, 0, 0, 0>>
               THEN [refs |-> DictSet(st.refs, RefName(st.counter),
                                      ElementInfo(RefName(st.counter), bounds,
                                               Attrib(doc, node))),
                     counter |-> st.counter + 1]
               ELSE st
    IN  traverse_children(doc, Children(doc, node), 1, st1)

traverse_children(doc, kids, k, st) ==
    IF k > Len(kids) THEN st
    ELSE traverse_children(doc, kids, k + 1, traverse(doc, kids[k], st))

\* a faulty parser that takes a text that does not parse for an empty hierarchy
_parse_hierarchy_lenient(doc) ==
    LET st0 == [refs |-> <<>>, counter |-> 0]
    IN  IF doc = Malformed THEN [kind |-> "refs", refs |-> <<>>]
        ELSE IF doc.tag = "hierarchy"
        THEN [kind |-> "refs",
              refs |-> traverse_children(doc, Children(doc, 1), 1, st0).refs]
        ELSE [kind |-> "refs", refs |-> traverse(doc, 1, st0).refs]

\* _parse_hierarchy: the refs dict, or ValueError for a text that does not parse
_parse_hierarchy(doc) ==
    LET st0 == [refs |-> <<>>, counter |-> 0]
    IN  IF doc = Malformed THEN [kind |-> "ValueError"]
        ELSE IF doc.tag = "hierarchy"
        THEN [kind |-> "refs",
              refs |-> traverse_children(doc, Children(doc, 1), 1, st0).refs]
        ELSE [kind |-> "refs", refs |-> traverse(doc, 1, st0).refs]

-----------------------------------------------------------------------------
(* Bounds of the model *)

Devices == {"d1", "d2"}

Threads == {"t1", "t2"}

NoThread == "(no thread)"

\* the clock runs from 0 to MaxTime
MaxTime == 2

\* create_snapshot calls that get a snapshot id in one run
MaxIds == 3

\* create_snapshot calls that get a snapshot id in one run of the one-thread
\* specification
MaxSeqIds == 2

\* the manager is constructed with max_snapshots_per_device in 0..MaxSnapshotsArg
MaxSnapshotsArg == 2

\* the manager is constructed with default_stale_seconds = StaleSecondsArg
StaleSecondsArg == 1

\* elements of a document handed to _parse_hierarchy on its own
MaxNodes == 4

\* u2.connect() calls that return a device in one run
MaxConnects == 6

\* uuid4() is called at most this many times for a recording id
MaxRecordingIds == 51

\* the polls of a new session that succeed
MaxPolls == 1

\* uuid4() is called at most this many times for a session id
MaxSessionIds == 11

\* the number of times the watcher of the device is started
MaxStarts == 2

\* the clock of the device cache runs from 0 to MaxClock
MaxClock == 601

\* RefNotFoundError keeps available_refs[:10]
SampleSize == 10

-----------------------------------------------------------------------------
(* SnapshotManager *)

EmptyDict == [x \in {} |-> x]

DictPut(f, k, v) == [x \in (DOMAIN f) \cup {k} |-> IF x = k THEN v ELSE f[x]]

\* f.pop(k, None)
\* a faulty pop that empties the dict
DictPop_all(f, k) == [x \in {} |-> x]

\* a faulty pop that removes nothing
DictPop_none(f, k) == f

DictPop(f, k) == [x \in (DOMAIN f) \ {k} |-> f[x]]

\* Optional[Snapshot]: None
NoSnapshot == [snapshot_id |-> NoId]

\* Optional[float]: None is <<>>, the number x is <<x>>
NoNumber == <<>>

\* Snapshot(...) as create_snapshot builds it.  package, activity, screen_size and
\* xml_hash are stored and never read by the manager.
Snapshot(snapshot_id, device_id, timestamp, refs) ==
    [snapshot_id |-> snapshot_id, device_id |-> device_id,
     timestamp |-> timestamp, refs |-> refs]

\* with self._lock: the lock can be taken
LockFree == _lock = NoThread

\* a faulty limit without the clamp to 1
max_allowed_unclamped == _max_snapshots

\* max_allowed = max(1, self._max_snapshots)
max_allowed == MaxOf(1, _max_snapshots)

\* a faulty assignment that keeps a current pointer the device already has
set_current_once(device_id, snapshot_id) ==
    IF device_id \in DOMAIN _current THEN _current
    ELSE [x \in (DOMAIN _current) \cup {device_id} |->
            IF x = device_id THEN snapshot_id ELSE _current[x]]

\* self._current[device_id] = snapshot_id
set_current(device_id, snapshot_id) == DictPut(_current, device_id, snapshot_id)

\* the body of get_current_snapshot, run under the lock
get_current_snapshot(device_id) ==
    IF device_id \notin DOMAIN _current THEN NoSnapshot
    ELSE LET snapshot_id == _current[device_id]
             of_device == IF device_id \in DOMAIN _snapshots
                          THEN _snapshots[device_id] ELSE EmptyDict
         IN  IF snapshot_id \in DOMAIN of_device
             THEN of_device[snapshot_id] ELSE NoSnapshot

\* Snapshot.is_stale(max_age_seconds) with time.time() = t
is_stale(snapshot, max_age_seconds, t) == t - snapshot.timestamp > max_age_seconds

\* max_age = max_stale_seconds or self._default_stale_seconds
max_age_of(max_stale_seconds) ==
    IF max_stale_seconds = NoNumber \/ max_stale_seconds[1] = 0
    THEN _default_stale_seconds
    ELSE max_stale_seconds[1]

\* a faulty error that keeps all of available_refs
RefNotFoundError_whole_list(ref, available_refs) ==
    [kind |-> "RefNotFoundError", ref |-> ref,
     details |-> IF Len(available_refs) > 0
                 THEN [ref |-> ref, available_refs_sample |-> available_refs]
                 ELSE [ref |-> ref]]

\* RefNotFoundError(ref, available_refs): details keeps available_refs[:10], and
\* only when available_refs is not empty
RefNotFoundError(ref, available_refs) ==
    [kind |-> "RefNotFoundError", ref |-> ref,
     details |-> IF Len(available_refs) > 0
                 THEN [ref |-> ref,
                       available_refs_sample |->
                           SubSeq(available_refs, 1, Min(SampleSize, Len(available_refs)))]
                 ELSE [ref |-> ref]]

\* StaleRefError(ref, snapshot_age_seconds)
StaleRefError(ref, snapshot_age_seconds) ==
    [kind |-> "StaleRefError", ref |-> ref,
     snapshot_age_seconds |-> snapshot_age_seconds]

Idle == [op |-> "idle"]

NoResult == [kind |-> "(no call finished)"]

\* thread t's call finishes with x
Returns(t, x) == [u \in Threads |-> IF u = t THEN x ELSE NoResult]

\* no call finishes
NoReturn == [u \in Threads |-> NoResult]

SMInit ==
    /\ _snapshots = EmptyDict
    /\ _snapshot_order = EmptyDict
    /\ _current = EmptyDict
    /\ _lock = NoThread
    /\ _max_snapshots \in 0..MaxSnapshotsArg
    /\ _default_stale_seconds = StaleSecondsArg
    /\ now = 0
    /\ uuid_counter = 0
    /\ pc = [t \in Threads |-> "idle"]
    /\ frame = [t \in Threads |-> Idle]
    /\ result = [t \in Threads |-> NoResult]
    /\ completed = [d \in Devices |-> <<>>]
    /\ last_seen = [d \in Devices |-> <<>>]
    /\ last_seen_valid = [d \in Devices |-> <<>>]
    /\ source_of = EmptyDict

\* the clock advances
Tick ==
    /\ now < MaxTime
    /\ now' = now + 1
    /\ result' = NoReturn
    /\ UNCHANGED <<source_of, _snapshots, _snapshot_order, _current, _lock, _max_snapshots,
                   _default_stale_seconds, uuid_counter, pc, frame,
                   completed, last_seen, last_seen_valid>>

\* create_snapshot, lines 221-243: take the lock, parse, build the snapshot, store it
\* and append its id to the device's order.  A text that does not parse raises
\* ValueError out of the with block, which releases the lock.
CreateSnapshot_Body(t, device_id, doc) ==
    /\ LockFree
    /\ uuid_counter < MaxIds
    /\ LET parsed == _parse_hierarchy(doc)
           snapshot_id == <<device_id, now, uuid_counter>>
           snapshot == Snapshot(snapshot_id, device_id, now, parsed.refs)
           of_device == IF device_id \in DOMAIN _snapshots
                        THEN _snapshots[device_id] ELSE EmptyDict
           order == IF device_id \in DOMAIN _snapshots
                    THEN _snapshot_order[device_id] ELSE <<>>
       IN  IF parsed.kind = "ValueError"
           THEN /\ result' = Returns(t, [kind |-> "ValueError"])
                /\ UNCHANGED <<_snapshots, _snapshot_order, _lock, uuid_counter,
                               pc, frame, last_seen, last_seen_valid, source_of>>
           ELSE /\ _snapshots' = DictPut(_snapshots, device_id,
                                         DictPut(of_device, snapshot_id, snapshot))
                /\ _snapshot_order' = DictPut(_snapshot_order, device_id,
                                              Append(order, snapshot_id))
                /\ _lock' = t
                /\ uuid_counter' = uuid_counter + 1
                /\ pc' = [pc EXCEPT ![t] = "cs_evict"]
                /\ frame' = [frame EXCEPT ![t] = [op |-> "create_snapshot",
                                                  device_id |-> device_id,
                                                  snapshot |-> snapshot]]
                /\ last_seen' = [last_seen EXCEPT ![device_id] = <<>>]
                /\ last_seen_valid' = [last_seen_valid EXCEPT ![device_id] = <<>>]
                /\ source_of' = DictPut(source_of, snapshot_id, doc)
                /\ result' = NoReturn
    /\ UNCHANGED <<_current, _max_snapshots, _default_stale_seconds, now, completed>>

\* create_snapshot called by a thread that is in no other call
CreateSnapshot_Store(t, device_id, doc) ==
    /\ pc[t] = "idle"
    /\ CreateSnapshot_Body(t, device_id, doc)

\* create_snapshot, lines 246-249: one turn of the cleanup loop, or its exit
CreateSnapshot_Evict(t) ==
    /\ pc[t] = "cs_evict"
    /\ LET device_id == frame[t].device_id
           order == _snapshot_order[device_id]
       IN  IF Len(order) > max_allowed
           THEN /\ _snapshot_order' = [_snapshot_order EXCEPT ![device_id] = Tail(order)]
                /\ _snapshots' = [_snapshots EXCEPT
                                    ![device_id] = DictPop(_snapshots[device_id], Head(order))]
                /\ UNCHANGED pc
           ELSE /\ pc' = [pc EXCEPT ![t] = "cs_set_current"]
                /\ UNCHANGED <<_snapshots, _snapshot_order>>
    /\ result' = NoReturn
    /\ UNCHANGED <<source_of, _current, _lock, _max_snapshots, _default_stale_seconds, now,
                   uuid_counter, frame, completed, last_seen, last_seen_valid>>

\* create_snapshot, lines 252-254: set the current pointer, return the snapshot and
\* leave the with block
CreateSnapshot_SetCurrent(t) ==
    /\ pc[t] = "cs_set_current"
    /\ LET device_id == frame[t].device_id
           snapshot == frame[t].snapshot
       IN  /\ _current' = set_current(device_id, snapshot.snapshot_id)
           /\ result' = Returns(t, [kind |-> "Snapshot", value |-> snapshot])
           /\ completed' = [completed EXCEPT
                              ![device_id] = Append(@, snapshot.snapshot_id)]
    /\ _lock' = NoThread
    /\ pc' = [pc EXCEPT ![t] = "idle"]
    /\ frame' = [frame EXCEPT ![t] = Idle]
    /\ UNCHANGED <<source_of, _snapshots, _snapshot_order, _max_snapshots, _default_stale_seconds,
                   now, uuid_counter, last_seen, last_seen_valid>>

\* get_current_snapshot called by a client: the whole body runs under the lock.
\* The result records what the previous call for the device returned.
GetCurrentSnapshot(t, device_id) ==
    /\ pc[t] = "idle"
    /\ LockFree
    /\ LET snapshot == get_current_snapshot(device_id)
       IN  /\ result' = Returns(t, [kind |-> "current", device_id |-> device_id,
                                       value |-> snapshot,
                                       previous |-> last_seen[device_id],
                                       previous_valid |-> last_seen_valid[device_id]])
           /\ last_seen' = [last_seen EXCEPT ![device_id] = <<snapshot.snapshot_id>>]
           /\ last_seen_valid' =
                  [last_seen_valid EXCEPT ![device_id] = <<snapshot.snapshot_id>>]
    /\ UNCHANGED <<source_of, _snapshots, _snapshot_order, _current, _lock, _max_snapshots,
                   _default_stale_seconds, now, uuid_counter, pc, frame, completed>>

\* a faulty resolve_ref that uses the missing snapshot (None has no is_stale)
resolve_without_snapshot_unchecked(f) ==
    [call |-> f, raised |-> [kind |-> "AttributeError"]]

\* resolve_ref, lines 346-347: if not snapshot: raise RefNotFoundError(ref, [])
resolve_without_snapshot(f) == [call |-> f, raised |-> RefNotFoundError(f.ref, <<>>)]

\* resolve_ref, lines 345-347 (and get_position, line 363, which calls it with the
\* default arguments): fetch the current snapshot under the lock; none raises
\* RefNotFoundError(ref, []).  A finished call leaves [call, raised] or
\* [call, returned] in result, call being its arguments and locals.
ResolveRef_Call(t, op, device_id, ref, validate_staleness, max_stale_seconds) ==
    /\ pc[t] = "idle"
    /\ LockFree
    /\ op \in {"resolve_ref", "get_position"}
    /\ op = "get_position" => validate_staleness /\ max_stale_seconds = NoNumber
    /\ LET f == [op |-> op, device_id |-> device_id, ref |-> ref,
                 validate_staleness |-> validate_staleness,
                 max_stale_seconds |-> max_stale_seconds,
                 snapshot |-> get_current_snapshot(device_id),
                 checked_age |-> NoNumber]
       IN  IF f.snapshot = NoSnapshot
           THEN /\ result' = Returns(t, resolve_without_snapshot(f))
                /\ UNCHANGED <<pc, frame>>
           ELSE /\ pc' = [pc EXCEPT ![t] = "rr_validate"]
                /\ frame' = [frame EXCEPT ![t] = f]
                /\ result' = NoReturn
    /\ UNCHANGED <<source_of, _snapshots, _snapshot_order, _current, _lock, _max_snapshots,
                   _default_stale_seconds, now, uuid_counter, completed,
                   last_seen, last_seen_valid>>

\* what resolve_ref does once the staleness check is behind it, lines 354-359, and
\* get_position's element.center
lookup_outcome(f) ==
    IF ~DictHas(f.snapshot.refs, f.ref)
    THEN [call |-> f, raised |-> RefNotFoundError(f.ref, DictKeys(f.snapshot.refs))]
    ELSE IF f.op = "get_position"
    THEN [call |-> f, returned |-> center(DictGet(f.snapshot.refs, f.ref))]
    ELSE [call |-> f, returned |-> DictGet(f.snapshot.refs, f.ref)]

\* resolve_ref, lines 349-359: the staleness check, which reads the clock once, then
\* the lookup.  checked_age records the age that check saw.  A stale snapshot goes on
\* to read the clock again for the age it reports.
ResolveRef_Validate(t) ==
    /\ pc[t] = "rr_validate"
    /\ LET f == [frame[t] EXCEPT !.checked_age = <<now - frame[t].snapshot.timestamp>>]
       IN  IF /\ f.validate_staleness
              /\ is_stale(f.snapshot, max_age_of(f.max_stale_seconds), now)
           THEN /\ pc' = [pc EXCEPT ![t] = "rr_raise_stale"]
                /\ frame' = [frame EXCEPT ![t] = f]
                /\ result' = NoReturn
           ELSE /\ pc' = [pc EXCEPT ![t] = "idle"]
                /\ frame' = [frame EXCEPT ![t] = Idle]
                /\ result' = Returns(t, lookup_outcome(f))
    /\ UNCHANGED <<source_of, _snapshots, _snapshot_order, _current, _lock, _max_snapshots,
                   _default_stale_seconds, now, uuid_counter, completed,
                   last_seen, last_seen_valid>>

\* resolve_ref, line 352: raise StaleRefError(ref, snapshot.age_seconds); age_seconds
\* reads the clock again
ResolveRef_RaiseStale(t) ==
    /\ pc[t] = "rr_raise_stale"
    /\ LET f == frame[t]
       IN  result' = Returns(t, [call |-> f,
                                raised |-> StaleRefError(f.ref,
                                                         now - f.snapshot.timestamp)])
    /\ pc' = [pc EXCEPT ![t] = "idle"]
    /\ frame' = [frame EXCEPT ![t] = Idle]
    /\ UNCHANGED <<source_of, _snapshots, _snapshot_order, _current, _lock, _max_snapshots,
                   _default_stale_seconds, now, uuid_counter, completed,
                   last_seen, last_seen_valid>>

\* a faulty invalidate that leaves the current pointer in place
invalidate_current_kept(device_id) == _current

\* a faulty invalidate that drops the current pointer of every device
invalidate_current_all(device_id) == EmptyDict

\* self._current.pop(device_id, None), the last statement of invalidate
invalidate_current(device_id) == DictPop(_current, device_id)

\* invalidate
Invalidate(t, device_id) ==
    /\ pc[t] = "idle"
    /\ LockFree
    /\ _snapshots' = DictPop(_snapshots, device_id)
    /\ _snapshot_order' = DictPop(_snapshot_order, device_id)
    /\ _current' = invalidate_current(device_id)
    /\ result' = Returns(t, [kind |-> "invalidated", device_id |-> device_id])
    /\ completed' = [completed EXCEPT ![device_id] = <<>>]
    /\ last_seen_valid' = [last_seen_valid EXCEPT ![device_id] = <<>>]
    /\ UNCHANGED <<source_of, _lock, _max_snapshots, _default_stale_seconds, now, uuid_counter,
                   pc, frame, last_seen>>

\* clear_all
ClearAll(t) ==
    /\ pc[t] = "idle"
    /\ LockFree
    /\ _snapshots' = EmptyDict
    /\ _snapshot_order' = EmptyDict
    /\ _current' = EmptyDict
    /\ result' = Returns(t, [kind |-> "cleared"])
    /\ completed' = [d \in Devices |-> <<>>]
    /\ last_seen_valid' = [d \in Devices |-> <<>>]
    /\ UNCHANGED <<source_of, _lock, _max_snapshots, _default_stale_seconds, now, uuid_counter,
                   pc, frame, last_seen>>

-----------------------------------------------------------------------------
(* DeviceManager *)

MAX_DEVICE_ID_LENGTH == 255
MAX_CACHED_DEVICES == 5
CACHE_TTL_SECONDS == 300

Letters ==
    {"a", "b", "c", "d", "e", "f", "g", "h", "i", "j", "k", "l", "m", "n", "o", "p", "q",
     "r", "s", "t", "u", "v", "w", "x", "y", "z", "A", "B", "C", "D", "E", "F", "G", "H",
     "I", "J", "K", "L", "M", "N", "O", "P", "Q", "R", "S", "T", "U", "V", "W", "X", "Y",
     "Z"}

\* the characters of the class [a-zA-Z0-9._:-]
DeviceIdChars == Letters \cup { Digits[i] : i \in 1..10 } \cup {".", "_", ":", "-"}

\* the ASCII characters that str.strip() removes
Whitespace == {" ", "\t", "\n", "\r", "\f"}

\* DEVICE_ID_PATTERN.match(s) is not None, for ^[a-zA-Z0-9._:-]+$ : the class matches
\* from the start, and $ matches at the end of the string and also just before a
\* newline that is the last character
DEVICE_ID_PATTERN_match(s) ==
    \/ Len(s) >= 1 /\ \A i \in 1..Len(s) : s[i] \in DeviceIdChars
    \/ /\ Len(s) >= 2
       /\ s[Len(s)] = "\n"
       /\ \A i \in 1..(Len(s) - 1) : s[i] \in DeviceIdChars

\* validate_device_id: device_id is NoValue (None) or Some(string)
validate_device_id(device_id) ==
    IF device_id = NoValue THEN TRUE
    ELSE IF device_id[1] = <<>> \/ \A i \in 1..Len(device_id[1]) : device_id[1][i] \in Whitespace
    THEN FALSE
    ELSE IF Len(device_id[1]) > MAX_DEVICE_ID_LENGTH THEN FALSE
    ELSE DEVICE_ID_PATTERN_match(device_id[1])

\* the error classes and their base classes
BaseOf ==
    [DeviceNotFoundError |-> "DeviceConnectionError",
     DeviceConnectionError |-> "AndroidAgentError",
     InvalidDeviceIdError |-> "AndroidAgentError",
     RefNotFoundError |-> "RefError",
     StaleRefError |-> "RefError",
     RefError |-> "AndroidAgentError",
     AndroidAgentError |-> "Exception",
     ValueError |-> "Exception",
     RuntimeError |-> "Exception"]

\* isinstance(an error of class kind, cls)
RECURSIVE IsInstance(_, _)
IsInstance(kind, cls) ==
    \/ kind = cls
    \/ kind \in DOMAIN BaseOf /\ IsInstance(BaseOf[kind], cls)

InvalidDeviceIdError(device_id) == [kind |-> "InvalidDeviceIdError", device_id |-> device_id]

\* a faulty constructor that makes the plain DeviceConnectionError
DeviceNotFoundError_as_connection(device_id) ==
    [kind |-> "DeviceConnectionError", device_id |-> device_id, reason |-> "not found"]

\* DeviceNotFoundError(device_id): device_id or "none" is handed to the base class
DeviceNotFoundError(device_id) ==
    [kind |-> "DeviceNotFoundError",
     device_id |-> IF device_id = NoValue \/ device_id = Some(<<>>)
                   THEN <<"n", "o", "n", "e">> ELSE device_id[1]]

DeviceConnectionError(device_id, reason) ==
    [kind |-> "DeviceConnectionError", device_id |-> device_id, reason |-> reason]

\* the decorators of the tools: what each gives wrap_tool_errors as pass_through
PassThrough ==
    [device_info |-> {},
     device_snapshot |-> {},
     app_start |-> {},
     device_tap |-> {"ValueError", "RefNotFoundError", "StaleRefError"},
     device_type |-> {"ValueError", "RefNotFoundError", "StaleRefError"},
     device_swipe |-> {"ValueError", "RefNotFoundError", "StaleRefError"},
     clear_text |-> {"ValueError", "RefNotFoundError", "StaleRefError"}]

\* the interaction tools that resolve a ref inside the with block of get_device
RefInBlockTools == {"device_type", "device_swipe", "clear_text"}

NoTool == "(no tool)"

\* wrap_tool_errors(..., pass_through=..)(func), for a func that raises error
wrap_tool_errors(pass_through, error) ==
    IF IsInstance(error.kind, "DeviceConnectionError") THEN error
    ELSE IF \E cls \in pass_through : IsInstance(error.kind, cls) THEN error
    ELSE [kind |-> "RuntimeError", cause |-> error]

\* what the caller of a tool, or of get_device itself, gets when get_device raises
ReachesCaller(tool, error) ==
    IF tool = NoTool THEN error ELSE wrap_tool_errors(PassThrough[tool], error)

\* the cache key of the default device
DefaultKey == <<"d", "e", "f", "a", "u", "l", "t">>

\* CachedDevice(device), touched at time t
CachedDevice(device, t) == [device |-> device, last_used |-> t]

\* CachedDevice.is_expired() with time.time() = t
is_expired(cached, t) == t - cached.last_used > CACHE_TTL_SECONDS

\* a faulty cleanup that removes nothing
_cleanup_expired_cache_never(cache, t) == cache

\* _cleanup_expired_cache
_cleanup_expired_cache(cache, t) ==
    [k \in { key \in DOMAIN cache : ~is_expired(cache[key], t) } |-> cache[k]]

\* the keys of the cache with the smallest last_used
OldestKeys(cache) ==
    { k \in DOMAIN cache : \A j \in DOMAIN cache : cache[k].last_used <= cache[j].last_used }

\* a faulty eviction that removes the entry used last
_evict_newest_if_needed(cache) ==
    IF Cardinality(DOMAIN cache) >= MAX_CACHED_DEVICES
    THEN { DictPop(cache, k) :
              k \in { k \in DOMAIN cache :
                         \A j \in DOMAIN cache : cache[k].last_used >= cache[j].last_used } }
    ELSE {cache}

\* a faulty eviction that waits until the cache is over capacity
_evict_oldest_if_over(cache) ==
    IF Cardinality(DOMAIN cache) > MAX_CACHED_DEVICES
    THEN { DictPop(cache, k) : k \in OldestKeys(cache) }
    ELSE {cache}

\* _evict_oldest_if_needed: the caches it may leave.  min() over the keys by
\* last_used takes, of several keys with the smallest last_used, the one inserted
\* first; the cache here keeps no insertion order, so any of them may go.
_evict_oldest_if_needed(cache) ==
    IF Cardinality(DOMAIN cache) >= MAX_CACHED_DEVICES
    THEN { DictPop(cache, k) : k \in OldestKeys(cache) }
    ELSE {cache}

\* resolve_device_id
resolve_device_id(device_id) ==
    IF device_id # NoValue THEN device_id ELSE _selected_device

\* resolve_device_id_or_default: resolve_device_id(device_id) or "default"
resolve_device_id_or_default(device_id) ==
    LET resolved == resolve_device_id(device_id)
    IN  IF resolved = NoValue \/ resolved = Some(<<>>) THEN DefaultKey ELSE resolved[1]

DMInit ==
    /\ _cache = EmptyDict
    /\ _cache_lock = NoThread
    /\ _selected_device = NoValue
    /\ handle_counter = 0

\* the places of get_device and select_device where a blocking device call is in
\* progress: adb devices, u2.connect, device.info
BlockingPlaces == {"gd_list", "gd_connect", "gd_probe", "sd_list"}

\* get_device raises error out of the call with locals f
GetDeviceRaises(t, f, error) ==
    Returns(t, [acquire |-> f, raised |-> error,
                reached_caller |-> ReachesCaller(f.tool, error)])

\* a faulty lock that lets every thread in
lock_is_free_always(lock) == TRUE

\* get_device, line 257: "with self._cache_lock" is entered when no thread holds it
lock_is_free(lock) == lock = NoThread

\* (The locals f of a call also keep full_cache: the purged cache, when the key is
\* not in it and it is at capacity.)
\* get_device, lines 248-272 and 282-284: resolve and validate the id; then under the
\* cache lock purge the expired entries and, for a key in the cache, touch the entry
\* and leave the lock; for a key not in the cache go on, with the lock, to list the
\* devices (default device) or to evict and connect.
GetDevice_Enter(t, tool, device_id) ==
    /\ pc[t] = "idle"
    /\ LET resolved_id == resolve_device_id(device_id)
           cache_key == IF resolved_id = NoValue \/ resolved_id = Some(<<>>)
                        THEN DefaultKey ELSE resolved_id[1]
           cleaned == _cleanup_expired_cache(_cache, now)
           f == [op |-> "get_device", tool |-> tool, device_id |-> device_id,
                 resolved_id |-> resolved_id, cache_key |-> cache_key,
                 hit |-> FALSE, device |-> NoValue, calls |-> <<>>,
                 full_cache |-> IF cache_key \notin DOMAIN cleaned
                                   /\ Cardinality(DOMAIN cleaned) >= MAX_CACHED_DEVICES
                                THEN Some(cleaned) ELSE NoValue]
       IN  IF ~validate_device_id(resolved_id)
           THEN /\ result' = GetDeviceRaises(t,
                                 [op |-> "get_device", tool |-> tool,
                                  device_id |-> device_id, resolved_id |-> resolved_id,
                                  calls |-> <<>>],
                                 InvalidDeviceIdError(IF resolved_id = NoValue THEN <<>>
                                                      ELSE resolved_id[1]))
                /\ UNCHANGED <<_cache, _cache_lock, pc, frame>>
           ELSE /\ lock_is_free(_cache_lock)
                /\ result' = NoReturn
                /\ IF cache_key \in DOMAIN cleaned
                   THEN /\ _cache' = [cleaned EXCEPT ![cache_key].last_used = now]
                        /\ pc' = [pc EXCEPT ![t] = "gd_probe"]
                        /\ frame' = [frame EXCEPT ![t] =
                                        [f EXCEPT !.hit = TRUE,
                                                  !.device = Some(cleaned[cache_key].device),
                                                  !.calls = <<"device.info">>]]
                        /\ UNCHANGED _cache_lock
                   ELSE /\ handle_counter < MaxConnects
                        /\ _cache_lock' = t
                        /\ IF resolved_id = NoValue
                           THEN /\ _cache' = cleaned
                                /\ pc' = [pc EXCEPT ![t] = "gd_list"]
                                /\ frame' = [frame EXCEPT ![t] =
                                                [f EXCEPT !.calls = <<"adb devices">>]]
                           ELSE /\ _cache' \in _evict_oldest_if_needed(cleaned)
                                /\ pc' = [pc EXCEPT ![t] = "gd_connect"]
                                /\ frame' = [frame EXCEPT ![t] =
                                                [f EXCEPT !.calls = <<"u2.connect">>]]
    /\ UNCHANGED <<_selected_device, handle_counter>>
    /\ UNCHANGED <<_snapshots, _snapshot_order, _current, _lock, _max_snapshots,
                   _default_stale_seconds, now, uuid_counter, completed, last_seen,
                   last_seen_valid, source_of>>

\* get_device, lines 266-272: get_available_devices() has returned (devices says
\* whether it found any); without a device DeviceNotFoundError leaves the with
\* block, else the oldest entry is evicted if need be and the connect starts
GetDevice_Listed(t, devices) ==
    /\ pc[t] = "gd_list"
    /\ IF ~devices
       THEN /\ result' = GetDeviceRaises(t, frame[t], DeviceNotFoundError(NoValue))
            /\ _cache_lock' = NoThread
            /\ pc' = [pc EXCEPT ![t] = "idle"]
            /\ frame' = [frame EXCEPT ![t] = Idle]
            /\ UNCHANGED _cache
       ELSE /\ result' = NoReturn
            /\ _cache' \in _evict_oldest_if_needed(_cache)
            /\ pc' = [pc EXCEPT ![t] = "gd_connect"]
            /\ frame' = [frame EXCEPT ![t].calls = Append(@, "u2.connect")]
            /\ UNCHANGED _cache_lock
    /\ UNCHANGED <<_selected_device, handle_counter>>
    /\ UNCHANGED <<_snapshots, _snapshot_order, _current, _lock, _max_snapshots,
                   _default_stale_seconds, now, uuid_counter, completed, last_seen,
                   last_seen_valid, source_of>>

\* get_device, lines 274-284: u2.connect has returned a device (connected) or raised;
\* the device is stored and touched and the lock left, or DeviceConnectionError
\* leaves the with block
GetDevice_Connected(t, connected) ==
    /\ pc[t] = "gd_connect"
    /\ _cache_lock' = NoThread
    /\ IF connected
       THEN /\ _cache' = DictPut(_cache, frame[t].cache_key,
                                 CachedDevice(handle_counter, now))
            /\ handle_counter' = handle_counter + 1
            /\ pc' = [pc EXCEPT ![t] = "gd_probe"]
            /\ frame' = [frame EXCEPT ![t].device = Some(handle_counter),
                                      ![t].calls = Append(@, "device.info")]
            /\ result' = NoReturn
       ELSE /\ result' = GetDeviceRaises(t, frame[t],
                             DeviceConnectionError(frame[t].cache_key, "connect"))
            /\ pc' = [pc EXCEPT ![t] = "idle"]
            /\ frame' = [frame EXCEPT ![t] = Idle]
            /\ UNCHANGED <<_cache, handle_counter>>
    /\ UNCHANGED _selected_device
    /\ UNCHANGED <<_snapshots, _snapshot_order, _current, _lock, _max_snapshots,
                   _default_stale_seconds, now, uuid_counter, completed, last_seen,
                   last_seen_valid, source_of>>

\* get_device, lines 288-290: device.info has returned (alive), and the device is
\* yielded to the with block of the caller, or it raised
GetDevice_Probed(t, alive) ==
    /\ pc[t] = "gd_probe"
    /\ IF alive
       THEN /\ pc' = [pc EXCEPT ![t] = "gd_yield"]
            /\ result' = Returns(t, [acquire |-> frame[t], yielded |-> frame[t].device[1]])
       ELSE /\ pc' = [pc EXCEPT ![t] = "gd_lost"]
            /\ result' = NoReturn
    /\ UNCHANGED frame
    /\ UNCHANGED dmVars
    /\ UNCHANGED <<_snapshots, _snapshot_order, _current, _lock, _max_snapshots,
                   _default_stale_seconds, now, uuid_counter, completed, last_seen,
                   last_seen_valid, source_of>>

\* get_device, lines 289-290: the with block of the caller ends (ended), or it raises
\* an Exception, which the generator gets at its yield
GetDevice_BlockEnds(t, ended) ==
    /\ pc[t] = "gd_yield"
    /\ IF ended
       THEN /\ pc' = [pc EXCEPT ![t] = "idle"]
            /\ frame' = [frame EXCEPT ![t] = Idle]
            /\ result' = Returns(t, [acquire |-> frame[t], released |-> frame[t].device[1]])
       ELSE /\ pc' = [pc EXCEPT ![t] = "gd_lost"]
            /\ result' = NoReturn
            /\ UNCHANGED frame
    /\ UNCHANGED dmVars
    /\ UNCHANGED <<_snapshots, _snapshot_order, _current, _lock, _max_snapshots,
                   _default_stale_seconds, now, uuid_counter, completed, last_seen,
                   last_seen_valid, source_of>>

\* get_device, lines 290-295: the entry of the key is popped under the lock and
\* DeviceConnectionError raised
GetDevice_Lost(t) ==
    /\ pc[t] = "gd_lost"
    /\ _cache_lock = NoThread
    /\ _cache' = DictPop(_cache, frame[t].cache_key)
    /\ result' = GetDeviceRaises(t, frame[t],
                     DeviceConnectionError(frame[t].cache_key, "Connection lost"))
    /\ pc' = [pc EXCEPT ![t] = "idle"]
    /\ frame' = [frame EXCEPT ![t] = Idle]
    /\ UNCHANGED <<_cache_lock, _selected_device, handle_counter>>
    /\ UNCHANGED <<_snapshots, _snapshot_order, _current, _lock, _max_snapshots,
                   _default_stale_seconds, now, uuid_counter, completed, last_seen,
                   last_seen_valid, source_of>>

\* disconnect
Disconnect(t, device_id) ==
    /\ pc[t] = "idle"
    /\ _cache_lock = NoThread
    /\ _cache' = DictPop(_cache, IF device_id = NoValue \/ device_id = Some(<<>>)
                                 THEN DefaultKey ELSE device_id[1])
    /\ result' = Returns(t, [kind |-> "disconnected", device_id |-> device_id])
    /\ UNCHANGED <<_cache_lock, _selected_device, handle_counter, pc, frame>>
    /\ UNCHANGED <<_snapshots, _snapshot_order, _current, _lock, _max_snapshots,
                   _default_stale_seconds, now, uuid_counter, completed, last_seen,
                   last_seen_valid, source_of>>

\* disconnect_all
DisconnectAll(t) ==
    /\ pc[t] = "idle"
    /\ _cache_lock = NoThread
    /\ _cache' = EmptyDict
    /\ result' = Returns(t, [kind |-> "disconnected all"])
    /\ UNCHANGED <<_cache_lock, _selected_device, handle_counter, pc, frame>>
    /\ UNCHANGED <<_snapshots, _snapshot_order, _current, _lock, _max_snapshots,
                   _default_stale_seconds, now, uuid_counter, completed, last_seen,
                   last_seen_valid, source_of>>

\* a faulty test that takes every id for available
any_serial_is_unchecked(devices, device_id) == TRUE

\* select_device, line 196: any(d.serial == device_id for d in devices)
any_serial_is(devices, device_id) == \E serial \in devices : Some(serial) = device_id

\* select_device, lines 191-195: validate, then start listing the devices
SelectDevice_Enter(t, device_id) ==
    /\ pc[t] = "idle"
    /\ IF ~validate_device_id(device_id)
       THEN /\ result' = Returns(t, [select |-> [device_id |-> device_id, calls |-> <<>>,
                                                 before |-> _selected_device],
                                     raised |-> InvalidDeviceIdError(device_id[1])])
            /\ UNCHANGED <<pc, frame>>
       ELSE /\ result' = NoReturn
            /\ pc' = [pc EXCEPT ![t] = "sd_list"]
            /\ frame' = [frame EXCEPT ![t] = [op |-> "select_device",
                                              device_id |-> device_id,
                                              calls |-> <<"adb devices">>,
                                              before |-> _selected_device]]
    /\ UNCHANGED dmVars
    /\ UNCHANGED <<_snapshots, _snapshot_order, _current, _lock, _max_snapshots,
                   _default_stale_seconds, now, uuid_counter, completed, last_seen,
                   last_seen_valid, source_of>>

\* select_device, lines 195-202: get_available_devices() has returned the serials
\* available; the id is selected if it is one of them
SelectDevice_Listed(t, available) ==
    /\ pc[t] = "sd_list"
    /\ LET f == [device_id |-> frame[t].device_id, calls |-> frame[t].calls,
                 before |-> _selected_device, available |-> available]
       IN  IF any_serial_is(available, f.device_id)
           THEN /\ _selected_device' = f.device_id
                /\ result' = Returns(t, [select |-> f, returned |-> TRUE])
           ELSE /\ result' = Returns(t, [select |-> f,
                                         raised |-> DeviceNotFoundError(f.device_id)])
                /\ UNCHANGED _selected_device
    /\ pc' = [pc EXCEPT ![t] = "idle"]
    /\ frame' = [frame EXCEPT ![t] = Idle]
    /\ UNCHANGED <<_cache, _cache_lock, handle_counter>>
    /\ UNCHANGED <<_snapshots, _snapshot_order, _current, _lock, _max_snapshots,
                   _default_stale_seconds, now, uuid_counter, completed, last_seen,
                   last_seen_valid, source_of>>

\* resolve_device_id called by a thread
ResolveDeviceId(t, device_id) ==
    /\ pc[t] = "idle"
    /\ result' = Returns(t, [resolve |-> device_id, returned |-> resolve_device_id(device_id)])
    /\ UNCHANGED <<pc, frame>>
    /\ UNCHANGED dmVars
    /\ UNCHANGED <<_snapshots, _snapshot_order, _current, _lock, _max_snapshots,
                   _default_stale_seconds, now, uuid_counter, completed, last_seen,
                   last_seen_valid, source_of>>

\* resolve_device_id_or_default called by a thread while adb would list the serials
\* available (the function does not ask for them)
ResolveDeviceIdOrDefault(t, device_id, available) ==
    /\ pc[t] = "idle"
    /\ result' = Returns(t, [resolve_or_default |-> device_id, available |-> available,
                             selected |-> _selected_device,
                             returned |-> resolve_device_id_or_default(device_id)])
    /\ UNCHANGED <<pc, frame>>
    /\ UNCHANGED dmVars
    /\ UNCHANGED <<_snapshots, _snapshot_order, _current, _lock, _max_snapshots,
                   _default_stale_seconds, now, uuid_counter, completed, last_seen,
                   last_seen_valid, source_of>>

-----------------------------------------------------------------------------
(* tools/watcher.py, tools/performance.py, tools/recording.py *)

\* no thread
NoLoop == [pc |-> "(not started)"]

\* WatcherManager.__init__, PerformanceMonitor.__init__, RecordingManager.__init__
LoopsInit ==
    /\ watcher_running = FALSE
    /\ watcher_loops = <<>>
    /\ monitor_running = FALSE
    /\ monitor_loop = NoLoop
    /\ _sessions = <<>>
    /\ _poll_interval = 1
    /\ session_counter = 0

ToolInit ==
    /\ LoopsInit
    /\ _recordings = <<>>
    /\ _active = EmptyDict
    /\ rec_counter = 0

\* the sm variables a step of a tool or of a background thread leaves alone
smVarsButResult == <<_snapshots, _snapshot_order, _current, _lock, _max_snapshots,
                     _default_stale_seconds, now, uuid_counter, pc, frame, completed,
                     last_seen, last_seen_valid, source_of>>

\* _watcher_loop: max_consecutive_errors
max_consecutive_errors == 10

\* what may go wrong in a poll cycle of the watcher: nothing; get_device or a device
\* call raises DeviceConnectionError, or another Exception, inside the try block of
\* _check_and_trigger; an Exception is raised before that try block (lines 168-178)
WatcherFailures == {"none", "DeviceConnectionError", "Exception", "Exception before try"}

\* _check_and_trigger: what leaves it when the cycle fails so.  Both except clauses
\* log and fall through to "return None".
_check_and_trigger(failure) ==
    IF failure = "Exception before try"
    THEN [raised |-> "Exception"]
    ELSE [returned |-> "None"]

\* a faulty loop condition that does not look at the flag
loop_continues_always(running) == TRUE

\* the condition of both loops: while self._running.get(key, False)
loop_continues(running) == running

\* a new _watcher_loop thread.  last_failure is history: how the last cycle failed.
NewWatcherLoop ==
    [pc |-> "check", consecutive_errors |-> 0, last_failure |-> "none",
     left_by |-> "(running)"]

\* a faulty check of the interval that lets every number pass
poll_interval_unchecked(poll_interval) == FALSE

\* start, line 269: if poll_interval <= 0
poll_interval_rejected(poll_interval) == poll_interval <= 0

\* WatcherManager.start, and watcher_start, which hands it the interval and lets its
\* ValueError pass
WatcherStart(t, poll_interval) ==
    /\ pc[t] = "idle"
    /\ IF poll_interval_rejected(poll_interval)
       THEN /\ result' = Returns(t, [kind |-> "watcher start",
                                     poll_interval |-> poll_interval,
                                     raised |-> [kind |-> "ValueError"]])
            /\ UNCHANGED watcherVars
       ELSE IF watcher_running
       THEN /\ result' = Returns(t, [kind |-> "watcher start",
                                     poll_interval |-> poll_interval,
                                     returned |-> FALSE])
            /\ UNCHANGED watcherVars
       ELSE /\ Len(watcher_loops) < MaxStarts
            /\ watcher_running' = TRUE
            /\ watcher_loops' = Append(watcher_loops, NewWatcherLoop)
            /\ result' = Returns(t, [kind |-> "watcher start",
                                     poll_interval |-> poll_interval,
                                     returned |-> TRUE])
    /\ UNCHANGED <<monitorVars, recVars>>
    /\ UNCHANGED smVarsButResult

\* WatcherManager.stop: the flag is cleared; the join waits 2 s at most, so the call
\* returns whether or not the thread has ended
WatcherStop(t) ==
    /\ pc[t] = "idle"
    /\ watcher_running' = FALSE
    /\ result' = Returns(t, [kind |-> "watcher stop"])
    /\ UNCHANGED <<watcher_loops, monitorVars, recVars>>
    /\ UNCHANGED smVarsButResult

\* _watcher_loop, line 234: the while condition
WatcherLoop_Check(i) ==
    /\ i \in 1..Len(watcher_loops)
    /\ watcher_loops[i].pc = "check"
    /\ watcher_loops' =
          [watcher_loops EXCEPT ![i] =
              IF loop_continues(watcher_running)
              THEN [@ EXCEPT !.pc = "cycle"]
              ELSE [@ EXCEPT !.pc = "cleanup", !.left_by = "flag"]]
    /\ result' = NoReturn
    /\ UNCHANGED <<watcher_running, monitorVars, recVars>>
    /\ UNCHANGED smVarsButResult

\* _watcher_loop, lines 235-250: one poll cycle and what the loop does with its
\* outcome
WatcherLoop_Cycle(i, failure) ==
    /\ i \in 1..Len(watcher_loops)
    /\ watcher_loops[i].pc = "cycle"
    /\ LET l == [watcher_loops[i] EXCEPT !.last_failure = failure]
           out == _check_and_trigger(failure)
       IN  watcher_loops' =
              [watcher_loops EXCEPT ![i] =
                  IF "returned" \in DOMAIN out
                  THEN [l EXCEPT !.consecutive_errors = 0, !.pc = "sleep"]
                  ELSE IF out.raised = "DeviceConnectionError"
                  THEN [l EXCEPT !.pc = "cleanup", !.left_by = "break"]
                  ELSE IF l.consecutive_errors + 1 >= max_consecutive_errors
                  THEN [l EXCEPT !.consecutive_errors = @ + 1,
                                 !.pc = "cleanup", !.left_by = "break"]
                  ELSE [l EXCEPT !.consecutive_errors = @ + 1, !.pc = "sleep"]]
    /\ result' = NoReturn
    /\ UNCHANGED <<watcher_running, monitorVars, recVars>>
    /\ UNCHANGED smVarsButResult

\* _watcher_loop, line 252: time.sleep(poll_interval) returns, and the cycle with its
\* outcome is over
WatcherLoop_Sleep(i) ==
    /\ i \in 1..Len(watcher_loops)
    /\ watcher_loops[i].pc = "sleep"
    /\ watcher_loops' = [watcher_loops EXCEPT ![i].pc = "check",
                                              ![i].last_failure = "none"]
    /\ result' = NoReturn
    /\ UNCHANGED <<watcher_running, monitorVars, recVars>>
    /\ UNCHANGED smVarsButResult

\* _watcher_loop, lines 254-257: the flag is cleared on the way out
WatcherLoop_Cleanup(i) ==
    /\ i \in 1..Len(watcher_loops)
    /\ watcher_loops[i].pc = "cleanup"
    /\ watcher_running' = FALSE
    /\ watcher_loops' = [watcher_loops EXCEPT ![i].pc = "done"]
    /\ result' = NoReturn
    /\ UNCHANGED <<monitorVars, recVars>>
    /\ UNCHANGED smVarsButResult

WatcherLoopStep(i, failures) ==
    \/ WatcherLoop_Check(i)
    \/ \E failure \in failures : WatcherLoop_Cycle(i, failure)
    \/ WatcherLoop_Sleep(i)
    \/ WatcherLoop_Cleanup(i)

\* what may go wrong in a poll cycle of the monitor
MonitorFailures == {"none", "DeviceConnectionError", "Exception"}

\* get_metrics_snapshot: DeviceConnectionError is raised again, any other Exception
\* logged
get_metrics_snapshot(failure) ==
    IF failure = "DeviceConnectionError"
    THEN [raised |-> "DeviceConnectionError"]
    ELSE [returned |-> "snapshot"]

\* PerformanceMonitor.start_monitoring for a package given, the first session
MonitorStart(t) ==
    /\ pc[t] = "idle"
    /\ monitor_loop = NoLoop
    /\ monitor_running' = TRUE
    /\ monitor_loop' = [pc |-> "check", last |-> "(no cycle)"]
    /\ result' = Returns(t, [kind |-> "monitor start"])
    /\ UNCHANGED <<watcherVars, recVars, sessionVars>>
    /\ UNCHANGED smVarsButResult

\* PerformanceMonitor.stop_monitoring
MonitorStop(t) ==
    /\ pc[t] = "idle"
    /\ monitor_loop # NoLoop
    /\ monitor_running' = FALSE
    /\ result' = Returns(t, [kind |-> "monitor stop"])
    /\ UNCHANGED <<monitor_loop, watcherVars, recVars, sessionVars>>
    /\ UNCHANGED smVarsButResult

\* _monitor_loop, line 211: the while condition
MonitorLoop_Check ==
    /\ monitor_loop.pc = "check"
    /\ monitor_loop' = [monitor_loop EXCEPT
                           !.pc = IF loop_continues(monitor_running) THEN "cycle" ELSE "done"]
    /\ result' = NoReturn
    /\ UNCHANGED <<monitor_running, watcherVars, recVars, sessionVars>>
    /\ UNCHANGED smVarsButResult

\* _monitor_loop, lines 212-227: one poll cycle; "except Exception" takes whatever
\* get_metrics_snapshot raises, and the loop goes on to sleep
MonitorLoop_Cycle(failure) ==
    /\ monitor_loop.pc = "cycle"
    /\ LET out == get_metrics_snapshot(failure)
       IN  monitor_loop' = [pc |-> "sleep",
                            last |-> IF "raised" \in DOMAIN out THEN out.raised
                                     ELSE out.returned]
    /\ result' = NoReturn
    /\ UNCHANGED <<monitor_running, watcherVars, recVars, sessionVars>>
    /\ UNCHANGED smVarsButResult

\* _monitor_loop, line 229: time.sleep returns
MonitorLoop_Sleep ==
    /\ monitor_loop.pc = "sleep"
    /\ monitor_loop' = [monitor_loop EXCEPT !.pc = "check"]
    /\ result' = NoReturn
    /\ UNCHANGED <<monitor_running, watcherVars, recVars, sessionVars>>
    /\ UNCHANGED smVarsButResult

MonitorLoopStep ==
    \/ MonitorLoop_Check
    \/ \E failure \in MonitorFailures : MonitorLoop_Cycle(failure)
    \/ MonitorLoop_Sleep

-----------------------------------------------------------------------------
(* The sessions of the performance monitor *)

MAX_MONITORING_SESSIONS == 10

MAX_SNAPSHOTS_PER_SESSION == 1000

\* MonitoringSession(...) with what belongs to its id: _running[session_id], the
\* thread of _threads[session_id] (where its loop is, and the interval its last
\* sleep was given) and, for the record, the poll_interval of its start_monitoring.
\* The snapshots are counted.
MonitoringSession(session_id, poll_interval) ==
    [session_id |-> session_id, is_running |-> TRUE, running |-> TRUE,
     snapshots |-> 0, loop |-> "check", slept |-> NoValue, asked |-> poll_interval]

\* session_id in self._sessions
HasSession(session_id) ==
    \E i \in 1..Len(_sessions) : _sessions[i].session_id = session_id

IndexOfSession(session_id) ==
    CHOOSE i \in 1..Len(_sessions) : _sessions[i].session_id = session_id

\* start_monitoring, lines 268-276: the ids of completed[:n], the sessions that are
\* not running in the order of the dict
FirstCompleted(n) ==
    LET completed_at == { i \in 1..Len(_sessions) : ~_sessions[i].is_running }
    IN  { _sessions[i].session_id :
            i \in { i \in completed_at :
                      Cardinality({ j \in completed_at : j < i }) < n } }

\* start_monitoring with a package
StartMonitoring(t, poll_interval) ==
    /\ pc[t] = "idle"
    /\ session_counter < MaxSessionIds
    /\ LET evicted == IF Len(_sessions) >= MAX_MONITORING_SESSIONS
                      THEN FirstCompleted(Len(_sessions) - MAX_MONITORING_SESSIONS + 1)
                      ELSE {}
           session == MonitoringSession(session_counter, poll_interval)
       IN  /\ _sessions' = Append(SelectSeq(_sessions,
                                            LAMBDA x : x.session_id \notin evicted),
                                  session)
           /\ result' = Returns(t, [start_monitoring |-> poll_interval,
                                    returned |-> session])
    /\ _poll_interval' = poll_interval
    /\ session_counter' = session_counter + 1
    /\ UNCHANGED <<monitor_running, monitor_loop, watcherVars, recVars>>
    /\ UNCHANGED smVarsButResult

\* stop_monitoring of a session that is stored
StopMonitoring(t, session_id) ==
    /\ pc[t] = "idle"
    /\ HasSession(session_id)
    /\ _sessions' = [_sessions EXCEPT ![IndexOfSession(session_id)] =
                        [@ EXCEPT !.is_running = FALSE, !.running = FALSE]]
    /\ result' = Returns(t, [stop_monitoring |-> session_id])
    /\ UNCHANGED <<_poll_interval, session_counter>>
    /\ UNCHANGED <<monitor_running, monitor_loop, watcherVars, recVars>>
    /\ UNCHANGED smVarsButResult

\* _monitor_loop, line 227: time.sleep(self._poll_interval)
sleep_interval(session) == _poll_interval

\* _monitor_loop of a stored session, lines 209-227: the while condition; a poll
\* cycle, which appends a snapshot after cutting a full list down to its last three
\* quarters, or fails; the sleep begins; the sleep ends
SessionLoopStep(session_id, failure) ==
    /\ HasSession(session_id)
    /\ LET i == IndexOfSession(session_id)
           session == _sessions[i]
           kept == IF session.snapshots >= MAX_SNAPSHOTS_PER_SESSION
                   THEN (MAX_SNAPSHOTS_PER_SESSION * 3) \div 4
                   ELSE session.snapshots
       IN  /\ session.loop # "done"
           /\ _sessions' = [_sessions EXCEPT ![i] =
                 CASE session.loop = "check" ->
                         [session EXCEPT !.loop = IF session.running THEN "cycle"
                                                  ELSE "done"]
                   [] session.loop = "cycle" ->
                         [session EXCEPT !.loop = "sleep",
                                         !.snapshots = IF failure = "none"
                                                       THEN kept + 1 ELSE @,
                                         !.slept = Some(sleep_interval(session))]
                   [] session.loop = "sleep" -> [session EXCEPT !.loop = "check"]]
    /\ result' = NoReturn
    /\ UNCHANGED <<_poll_interval, session_counter>>
    /\ UNCHANGED <<monitor_running, monitor_loop, watcherVars, recVars>>
    /\ UNCHANGED smVarsButResult

(* The recording manager *)

MAX_RECORDINGS == 50

\* GestureRecording(...) with no events yet; an event is its timestamp
GestureRecording(recording_id, device_id, start_time, is_recording) ==
    [recording_id |-> recording_id, device_id |-> device_id,
     start_time |-> start_time, is_recording |-> is_recording, events |-> <<>>]

\* recording_id in self._recordings
HasRecording(recordings, recording_id) ==
    \E i \in 1..Len(recordings) : recordings[i].recording_id = recording_id

\* self._recordings[recording_id] = recording: a new key goes to the end, the value of
\* a key the dict has is replaced in its place
PutRecording(recordings, recording) ==
    IF HasRecording(recordings, recording.recording_id)
    THEN [i \in 1..Len(recordings) |->
             IF recordings[i].recording_id = recording.recording_id
             THEN recording ELSE recordings[i]]
    ELSE Append(recordings, recording)

\* self._recordings.pop(rid, None) for every rid of rids
PopRecordings(recordings, rids) ==
    SelectSeq(recordings, LAMBDA rec : rec.recording_id \notin rids)

\* start_recording, lines 106-113: the ids of completed[:n] after the stable sort by
\* start_time of the completed recordings in the order of the dict
OldestCompleted(recordings, n) ==
    LET completed_at == { i \in 1..Len(recordings) : ~recordings[i].is_recording }
        before(j, i) == \/ recordings[j].start_time < recordings[i].start_time
                        \/ /\ recordings[j].start_time = recordings[i].start_time
                           /\ j < i
    IN  { recordings[i].recording_id :
            i \in { i \in completed_at :
                      Cardinality({ j \in completed_at : before(j, i) }) < n } }

\* import_recording, lines 287-288: the recording is stored, whatever the dict holds
import_store(recordings, recording) == PutRecording(recordings, recording)

\* start_recording
StartRecording(t, device_id) ==
    /\ rec_counter < MaxRecordingIds
    /\ LET at_limit == Len(_recordings) >= MAX_RECORDINGS
           evicted == IF at_limit
                      THEN OldestCompleted(_recordings,
                                           Len(_recordings) - MAX_RECORDINGS + 1)
                      ELSE {}
           recording == GestureRecording(rec_counter, device_id, now, TRUE)
       IN  IF at_limit /\ evicted = {}
           THEN /\ result' = Returns(t, [start_recording |-> device_id,
                                         before |-> _recordings, returned |-> NoValue])
                /\ UNCHANGED recVars
           ELSE /\ _recordings' = PutRecording(PopRecordings(_recordings, evicted),
                                               recording)
                /\ _active' = DictPut(_active, device_id, rec_counter)
                /\ rec_counter' = rec_counter + 1
                /\ result' = Returns(t, [start_recording |-> device_id,
                                         before |-> _recordings,
                                         returned |-> Some(recording)])
    /\ UNCHANGED smVarsButResult

MAX_EVENTS_PER_RECORDING == 5000

\* the events added to one recording in a run
MaxEvents == 1

\* add_event: the event, which is its timestamp here, is appended to a recording that
\* is stored, is in progress and has room
AddEvent(t, recording_id) ==
    /\ IF ~HasRecording(_recordings, recording_id)
       THEN /\ result' = Returns(t, [add_event |-> recording_id, returned |-> FALSE])
            /\ UNCHANGED _recordings
       ELSE LET i == CHOOSE i \in 1..Len(_recordings) :
                        _recordings[i].recording_id = recording_id
                recording == _recordings[i]
            IN  IF \/ ~recording.is_recording
                   \/ Len(recording.events) >= MAX_EVENTS_PER_RECORDING
                THEN /\ result' = Returns(t, [add_event |-> recording_id,
                                              returned |-> FALSE])
                     /\ UNCHANGED _recordings
                ELSE /\ Len(recording.events) < MaxEvents
                     /\ _recordings' =
                           [_recordings EXCEPT ![i].events =
                               Append(@, now - recording.start_time)]
                     /\ result' = Returns(t, [add_event |-> recording_id,
                                              device_id |-> recording.device_id,
                                              returned |-> TRUE])
    /\ UNCHANGED <<_active, rec_counter>>
    /\ UNCHANGED smVarsButResult

\* stop_recording
StopRecording(t, recording_id) ==
    /\ IF ~HasRecording(_recordings, recording_id)
       THEN /\ result' = Returns(t, [stop_recording |-> recording_id,
                                     returned |-> NoValue])
            /\ UNCHANGED recVars
       ELSE LET i == CHOOSE i \in 1..Len(_recordings) :
                        _recordings[i].recording_id = recording_id
                recording == [_recordings[i] EXCEPT !.is_recording = FALSE]
            IN  /\ _recordings' = [_recordings EXCEPT ![i] = recording]
                /\ _active' = IF /\ recording.device_id \in DOMAIN _active
                                 /\ _active[recording.device_id] = recording_id
                              THEN DictPop(_active, recording.device_id)
                              ELSE _active
                /\ result' = Returns(t, [stop_recording |-> recording_id,
                                         returned |-> Some(recording)])
                /\ UNCHANGED rec_counter
    /\ UNCHANGED smVarsButResult

\* delete_recording
DeleteRecording(t, recording_id) ==
    /\ _recordings' = PopRecordings(_recordings, {recording_id})
    /\ result' = Returns(t, [delete_recording |-> recording_id,
                             returned |-> HasRecording(_recordings, recording_id)])
    /\ UNCHANGED <<_active, rec_counter>>
    /\ UNCHANGED smVarsButResult

\* import_recording of a JSON text that parses (parsed) and gives a recording_id or
\* none, or of one that does not
ImportRecording(t, parsed, given_id, device_id) ==
    /\ given_id = NoValue => rec_counter < MaxRecordingIds
    /\ IF ~parsed
       THEN /\ result' = Returns(t, [import_recording |-> "(not JSON)",
                                     returned |-> NoValue])
            /\ UNCHANGED recVars
       ELSE LET recording_id == IF given_id = NoValue THEN rec_counter ELSE given_id[1]
                recording == GestureRecording(recording_id, device_id, 0, FALSE)
            IN  /\ _recordings' = import_store(_recordings, recording)
                /\ rec_counter' = IF given_id = NoValue THEN rec_counter + 1
                                  ELSE rec_counter
                /\ result' = Returns(t, [import_recording |-> given_id,
                                         before |-> _recordings,
                                         returned |-> Some(recording)])
                /\ UNCHANGED _active
    /\ UNCHANGED smVarsButResult

(* play_recording *)

MAX_PLAYBACK_TIME_SECONDS == 600

\* the variables of the snapshot manager that the tools leave alone
snapshotState == <<_snapshots, _snapshot_order, _current, _lock, _max_snapshots,
                   _default_stale_seconds, now, uuid_counter, completed, last_seen,
                   last_seen_valid, source_of>>

\* a faulty index of an error: the number of errors so far
error_index_counted(event_index, errors) == Len(errors)

\* errors.append({"event_index": event_index, ..}), line 347
error_index(event_index, errors) == event_index

\* play_recording raises error out of the call with locals f
PlayRaises(t, f, error) == Returns(t, [play_recording |-> f, raised |-> error])

\* play_recording, lines 306-327: the checks of the speed, of the recording and of
\* the estimated duration (events[-1].timestamp / speed), and the locals
PlayRecording_Enter(t, recording_id, device_id, speed) ==
    /\ pc[t] = "idle"
    /\ LET call == [op |-> "play_recording", recording_id |-> recording_id,
                    device_id |-> device_id, speed |-> speed]
       IN  IF speed <= 0
           THEN /\ result' = PlayRaises(t, call, [kind |-> "ValueError", of |-> "speed"])
                /\ UNCHANGED <<pc, frame>>
           ELSE IF ~HasRecording(_recordings, recording_id)
           THEN /\ result' = PlayRaises(t, call, [kind |-> "ValueError",
                                                   of |-> "recording_id"])
                /\ UNCHANGED <<pc, frame>>
           ELSE LET recording == _recordings[CHOOSE i \in 1..Len(_recordings) :
                                        _recordings[i].recording_id = recording_id]
                    events == recording.events
                IN  IF /\ Len(events) > 0
                       /\ events[Len(events)] > MAX_PLAYBACK_TIME_SECONDS * speed
                    THEN /\ result' = PlayRaises(t, call, [kind |-> "ValueError",
                                                           of |-> "duration"])
                         /\ UNCHANGED <<pc, frame>>
                    ELSE /\ result' = NoReturn
                         /\ pc' = [pc EXCEPT ![t] = "pr_get_device"]
                         /\ frame' = [frame EXCEPT ![t] =
                               call @@ [target_device |-> IF device_id = NoValue
                                                          THEN recording.device_id
                                                          ELSE device_id[1],
                                        events |-> events, event_index |-> 0,
                                        events_played |-> 0, errors |-> <<>>,
                                        attempted |-> <<>>, failed |-> {}]]
    /\ UNCHANGED <<dmVars, snapshotState, toolVars>>

\* what the acquisition of the device and window_size() may do
PlayAcquisitions == {"u2.connect raises", "device.info raises", "window_size raises", "ok"}

\* play_recording, lines 333-335: get_device(target_device) from its first line to
\* the yield, run by the one thread there is, and screen_size = device.window_size().
\* An exception of window_size is one of the with block: get_device pops the entry
\* and raises DeviceConnectionError like after a failed probe.
PlayRecording_GetDevice(t, outcome) ==
    /\ pc[t] = "pr_get_device"
    /\ _cache_lock = NoThread
    /\ LET key == frame[t].target_device
           cleaned == _cleanup_expired_cache(_cache, now)
           hit == key \in DOMAIN cleaned
       IN  IF ~hit /\ outcome = "u2.connect raises"
           THEN /\ _cache' \in _evict_oldest_if_needed(cleaned)
                /\ UNCHANGED handle_counter
                /\ result' = PlayRaises(t, frame[t], DeviceConnectionError(key, "connect"))
                /\ pc' = [pc EXCEPT ![t] = "idle"]
                /\ frame' = [frame EXCEPT ![t] = Idle]
           ELSE /\ hit \/ handle_counter < MaxConnects
                /\ handle_counter' = IF hit THEN handle_counter ELSE handle_counter + 1
                /\ IF outcome \in {"ok", "u2.connect raises"}
                   THEN /\ IF hit
                           THEN _cache' = [cleaned EXCEPT ![key].last_used = now]
                           ELSE \E evicted \in _evict_oldest_if_needed(cleaned) :
                                   _cache' = DictPut(evicted, key,
                                                     CachedDevice(handle_counter, now))
                        /\ result' = NoReturn
                        /\ pc' = [pc EXCEPT ![t] = "pr_events"]
                        /\ UNCHANGED frame
                   ELSE /\ IF hit
                           THEN _cache' = DictPop(cleaned, key)
                           ELSE _cache' \in _evict_oldest_if_needed(cleaned)
                        /\ result' = PlayRaises(t, frame[t],
                                         DeviceConnectionError(key, "Connection lost"))
                        /\ pc' = [pc EXCEPT ![t] = "idle"]
                        /\ frame' = [frame EXCEPT ![t] = Idle]
    /\ UNCHANGED <<_cache_lock, _selected_device, snapshotState, toolVars>>

\* play_recording, lines 338-348: one turn of the loop over the events;
\* _execute_event returns or raises an Exception (raises)
PlayRecording_Event(t, raises) ==
    /\ pc[t] = "pr_events"
    /\ frame[t].event_index < Len(frame[t].events)
    /\ LET f == frame[t]
           event_index == f.event_index
       IN  frame' = [frame EXCEPT ![t] =
              [f EXCEPT !.event_index = event_index + 1,
                        !.attempted = Append(@, event_index),
                        !.failed = IF raises THEN @ \cup {event_index} ELSE @,
                        !.events_played = IF raises THEN @ ELSE @ + 1,
                        !.errors = IF raises
                                   THEN Append(@, [event_index |->
                                                      error_index(event_index, @)])
                                   ELSE @]]
    /\ result' = NoReturn
    /\ UNCHANGED <<pc, dmVars, snapshotState, toolVars>>

\* play_recording, lines 357-362: the loop and the with block have ended
PlayRecording_Return(t) ==
    /\ pc[t] = "pr_events"
    /\ frame[t].event_index = Len(frame[t].events)
    /\ result' = Returns(t, [play_recording |-> frame[t],
                             returned |-> [success |-> Len(frame[t].errors) = 0,
                                           events_played |-> frame[t].events_played,
                                           total_events |-> Len(frame[t].events),
                                           errors |-> frame[t].errors]])
    /\ pc' = [pc EXCEPT ![t] = "idle"]
    /\ frame' = [frame EXCEPT ![t] = Idle]
    /\ UNCHANGED <<dmVars, snapshotState, toolVars>>

(* The callers of the snapshot manager *)

\* what a caller may do to a Snapshot it was handed: set its timestamp a minute back
\* (tests/test_ref_system.py, test_resolve_ref_stale) or clear its refs
CallerChanges == {"timestamp", "refs"}

\* create_snapshot (line 254) and get_current_snapshot (line 321) return the Snapshot
\* object that _snapshots holds, and Snapshot is a dataclass that is not frozen: an
\* assignment by the caller to the object it was handed is an assignment to the
\* stored one, for as long as the manager keeps it
Caller_Changes(t, device_id, snapshot_id, change) ==
    /\ pc[t] = "idle"
    /\ \E i \in 1..Len(completed[device_id]) : completed[device_id][i] = snapshot_id
    /\ device_id \in DOMAIN _snapshots
    /\ snapshot_id \in DOMAIN _snapshots[device_id]
    /\ _snapshots' =
          IF change = "timestamp"
          THEN [_snapshots EXCEPT ![device_id][snapshot_id].timestamp = now - 60]
          ELSE [_snapshots EXCEPT ![device_id][snapshot_id].refs = <<>>]
    /\ result' = Returns(t, [kind |-> "caller changed", snapshot_id |-> snapshot_id,
                             change |-> change])
    /\ UNCHANGED <<source_of, _snapshot_order, _current, _lock, _max_snapshots,
                   _default_stale_seconds, now, uuid_counter, pc, frame, completed,
                   last_seen, last_seen_valid>>

(* The interaction tools that take a ref *)

\* the device id of a tool call, a string, as the key of the snapshot manager
SnapshotKey(chars) ==
    IF chars = <<"d", "1">> THEN "d1" ELSE IF chars = <<"d", "2">> THEN "d2" ELSE "(other)"

\* _resolve_position(resolved_id, ref) with a ref: snapshot_manager.get_position at
\* one reading of the clock -- the current snapshot, the staleness check against the
\* default age, the lookup and the center of the element
_resolve_position(resolved_id, ref) ==
    LET f == [op |-> "get_position", device_id |-> SnapshotKey(resolved_id), ref |-> ref,
              validate_staleness |-> TRUE, max_stale_seconds |-> NoNumber,
              snapshot |-> get_current_snapshot(SnapshotKey(resolved_id)),
              checked_age |-> NoNumber]
    IN  IF f.snapshot = NoSnapshot THEN resolve_without_snapshot(f)
        ELSE IF is_stale(f.snapshot, max_age_of(NoNumber), now)
        THEN [call |-> f, raised |-> StaleRefError(ref, now - f.snapshot.timestamp)]
        ELSE lookup_outcome(f)

\* device_tap, lines 112-118: the position is resolved, and a failure of that leaves
\* the tool through wrap_tool_errors, before get_device is entered
DeviceTap_Enter(t, ref, device_id) ==
    LET position == _resolve_position(resolve_device_id_or_default(device_id), ref)
    IN  IF "raised" \in DOMAIN position
        THEN /\ pc[t] = "idle"
             /\ LockFree
             /\ result' = Returns(t, [tool |-> "device_tap", ref |-> ref,
                                      ref_error |-> position.raised,
                                      reached_caller |-> ReachesCaller("device_tap",
                                                                       position.raised)])
             /\ UNCHANGED <<smVarsButResult, dmVars>>
        ELSE /\ LockFree
             /\ GetDevice_Enter(t, "device_tap", device_id)

\* device_type, device_swipe and clear_text with a ref: inside the with block of
\* get_device the position is resolved; a failure is an exception of the block, which
\* get_device gets at its yield, and else the block goes on to its end.  (The ref is
\* an argument of the tool that nothing reads before this step.)
InteractionTool_Block(t, ref) ==
    /\ pc[t] = "gd_yield"
    /\ frame[t].tool \in RefInBlockTools
    /\ LockFree
    /\ LET position == _resolve_position(resolve_device_id_or_default(frame[t].device_id),
                                         ref)
       IN  IF "raised" \in DOMAIN position
           THEN /\ pc' = [pc EXCEPT ![t] = "gd_lost"]
                /\ frame' = [frame EXCEPT ![t] = @ @@ [ref |-> ref,
                                                        ref_error |-> position.raised]]
                /\ result' = NoReturn
           ELSE /\ pc' = [pc EXCEPT ![t] = "idle"]
                /\ frame' = [frame EXCEPT ![t] = Idle]
                /\ result' = Returns(t, [acquire |-> frame[t],
                                         released |-> frame[t].device[1],
                                         clicked |-> position.returned])
    /\ UNCHANGED dmVars
    /\ UNCHANGED <<_snapshots, _snapshot_order, _current, _lock, _max_snapshots,
                   _default_stale_seconds, now, uuid_counter, completed, last_seen,
                   last_seen_valid, source_of>>

-----------------------------------------------------------------------------
\* the clock advances by dt while the threads do whatever they do
Sleep(dt) ==
    /\ now + dt <= MaxClock
    /\ now' = now + dt
    /\ result' = NoReturn
    /\ UNCHANGED dmVars
    /\ UNCHANGED <<_snapshots, _snapshot_order, _current, _lock, _max_snapshots,
                   _default_stale_seconds, uuid_counter, pc, frame, completed, last_seen,
                   last_seen_valid, source_of>>

\* `sub in s` for Python strings, here sequences of characters
Contains(sub, s) ==
    \E i \in 0..(Len(s) - Len(sub)) : SubSeq(s, i + 1, i + Len(sub)) = sub

\* the criteria of a call that gives none
NoCriteria ==
    [text |-> NoValue, text_contains |-> NoValue, resource_id |-> NoValue,
     resource_id_contains |-> NoValue, class_name |-> NoValue,
     content_desc |-> NoValue, clickable |-> NoValue, enabled |-> NoValue]

\* a faulty matches() that lets an element without text pass text_contains
matches_textless(self, c) ==
    /\ c.text # NoValue => self.text = c.text
    /\ c.text_contains # NoValue /\ self.text # NoValue =>
          Contains(c.text_contains[1], self.text[1])
    /\ c.resource_id # NoValue => self.resource_id = c.resource_id
    /\ c.resource_id_contains # NoValue =>
          self.resource_id # NoValue
              /\ Contains(c.resource_id_contains[1], self.resource_id[1])
    /\ c.class_name # NoValue => self.class_name = c.class_name[1]
    /\ c.content_desc # NoValue => self.content_desc = c.content_desc
    /\ c.clickable # NoValue => self.clickable = c.clickable[1]
    /\ c.enabled # NoValue => self.enabled = c.enabled[1]

\* ElementInfo.matches: a criterion that is None is not given (c.x = NoValue)
matches(self, c) ==
    IF c.text # NoValue /\ self.text # c.text THEN FALSE
    ELSE IF c.text_contains # NoValue
            /\ (self.text = NoValue \/ ~Contains(c.text_contains[1], self.text[1]))
    THEN FALSE
    ELSE IF c.resource_id # NoValue /\ self.resource_id # c.resource_id THEN FALSE
    ELSE IF c.resource_id_contains # NoValue
            /\ (self.resource_id = NoValue
                   \/ ~Contains(c.resource_id_contains[1], self.resource_id[1]))
    THEN FALSE
    ELSE IF c.class_name # NoValue /\ self.class_name # c.class_name[1] THEN FALSE
    ELSE IF c.content_desc # NoValue /\ self.content_desc # c.content_desc THEN FALSE
    ELSE IF c.clickable # NoValue /\ self.clickable # c.clickable[1] THEN FALSE
    ELSE IF c.enabled # NoValue /\ self.enabled # c.enabled[1] THEN FALSE
    ELSE TRUE

\* Snapshot.find_elements: [elem for elem in self.refs.values() if elem.matches(..)]
Snapshot_find_elements(snapshot, criteria) ==
    SelectSeq([i \in 1..Len(snapshot.refs) |-> snapshot.refs[i].value],
              LAMBDA elem : matches(elem, criteria))

\* SnapshotManager.find_elements
FindElements(t, device_id, criteria) ==
    /\ pc[t] = "idle"
    /\ LockFree
    /\ LET snapshot == get_current_snapshot(device_id)
       IN  result' = Returns(t, [find |-> [device_id |-> device_id,
                                           criteria |-> criteria,
                                           snapshot |-> snapshot],
                                 returned |-> IF snapshot = NoSnapshot THEN <<>>
                                              ELSE Snapshot_find_elements(snapshot,
                                                                          criteria)])
    /\ UNCHANGED <<source_of, _snapshots, _snapshot_order, _current, _lock, _max_snapshots,
                   _default_stale_seconds, now, uuid_counter, pc, frame, completed,
                   last_seen, last_seen_valid>>

-----------------------------------------------------------------------------
(* Inputs *)

Doc(tag, par, bounds) == [tag |-> tag, par |-> par, bounds |-> bounds]

\* SIMPLE_XML of tests/test_ref_system.py
SimpleDoc == Doc("hierarchy", <<0, 1>>, <<Absent, BoundsStr(<<100, 100, 200, 150>>)>>)

\* a hierarchy without nodes
EmptyDoc == Doc("hierarchy", <<0>>, <<Absent>>)

\* a <node> root without bounds over a view that is partly off screen to the left
\* and a container that holds a leaf with odd coordinate sums
NestedDoc ==
    Doc("node", <<0, 1, 1, 3>>,
        <<Absent, BoundsStr(<<-40, 301, 60, 400>>), BoundsStr(<<0, 0, 1080, 2400>>),
          BoundsStr(<<5, 7, 10, 12>>)>>)

\* eleven nodes side by side
WideDoc ==
    Doc("hierarchy", <<0, 1, 1, 1, 1, 1, 1, 1, 1, 1, 1, 1>>,
        <<Absent>> \o [i \in 1..(SampleSize + 1) |-> BoundsStr(<<i, 0, i + 10, 20>>)])

\* bounds attributes of the nodes of a document parsed on its own: a rectangle, none,
\* a rectangle with a negative coordinate, three numbers, six numbers
ParseBounds ==
    { BoundsStr(<<100, 100, 200, 150>>), Absent, BoundsStr(<<-40, 0, 60, 25>>),
      <<"[", "1", ",", "2", "]", "[", "3">>,
      BoundsStr(<<7, 8, 9, 10>>) \o <<"[", "5", ",", "6", "]">> }

ConcurrentDocs == {SimpleDoc, Malformed}

SequentialDevices == {"d1"}
SequentialDocs == {NestedDoc, WideDoc, Malformed}
SequentialRefs == {"e0", "e10", "e11"}
SequentialAges == {NoNumber, <<0>>, <<1>>, <<2>>}

Unparsed == [kind |-> "(not parsed)"]

-----------------------------------------------------------------------------
(* Specifications *)

Init == SMInit /\ DMInit /\ ToolInit /\ p_doc = EmptyDoc /\ p_out = Unparsed

\* the manager's history operations, called by two threads
Next ==
    /\ \E t \in Threads :
          \/ \E d \in Devices, doc \in ConcurrentDocs : CreateSnapshot_Store(t, d, doc)
          \/ CreateSnapshot_Evict(t)
          \/ CreateSnapshot_SetCurrent(t)
          \/ \E d \in Devices : GetCurrentSnapshot(t, d)
          \/ \E d \in Devices : Invalidate(t, d)
          \/ ClearAll(t)
    /\ UNCHANGED <<parseVars, dmVars, toolVars>>

Spec == Init /\ [][Next]_vars

\* snapshots of one device taken and resolved by one thread while the clock runs
NextSeq ==
    /\ \/ Tick
       \/ /\ uuid_counter < MaxSeqIds
          /\ \E d \in SequentialDevices, doc \in SequentialDocs :
                CreateSnapshot_Store("t1", d, doc)
       \/ CreateSnapshot_Evict("t1")
       \/ CreateSnapshot_SetCurrent("t1")
       \/ \E op \in {"resolve_ref", "get_position"}, d \in SequentialDevices,
             ref \in SequentialRefs, v \in BOOLEAN, age \in SequentialAges :
             ResolveRef_Call("t1", op, d, ref, v, age)
       \/ ResolveRef_Validate("t1")
       \/ ResolveRef_RaiseStale("t1")
       \/ \E d \in SequentialDevices : Invalidate("t1", d)
       \/ ClearAll("t1")
    /\ UNCHANGED <<parseVars, dmVars, toolVars>>

\* ... by a manager that keeps every snapshot of the run
InitSeq == Init /\ _max_snapshots = MaxSnapshotsArg

SpecSeq == InitSeq /\ [][NextSeq]_vars

\* _parse_hierarchy applied to one document
\* the document is any tree of at most MaxNodes elements with bounds attributes from
\* ParseBounds, under a <hierarchy> root (which has no bounds) or a <node> root
InitParse ==
    /\ SMInit
    /\ DMInit
    /\ ToolInit
    /\ _max_snapshots = 1
    /\ \E n \in 1..MaxNodes, tag \in {"hierarchy", "node"} :
          \E par \in [1..(n - 1) -> 1..(n - 1)], bounds \in [1..n -> ParseBounds] :
             /\ \A j \in 1..(n - 1) : par[j] <= j
             /\ tag = "hierarchy" => bounds[1] = Absent
             /\ p_doc = Doc(tag, <<0>> \o par, bounds)
    /\ p_out = Unparsed

ParseHierarchy ==
    /\ p_out = Unparsed
    /\ p_out' = _parse_hierarchy(p_doc)
    /\ UNCHANGED <<p_doc, smVars, dmVars, toolVars>>

NextParse == ParseHierarchy

SpecParse == InitParse /\ [][NextParse]_vars

\* documents whose nodes have attributes: a button, a node with empty text and no
\* class that is neither clickable nor enabled, a second button without description,
\* and under a node without bounds a view without attributes
Attrs(text, resource_id, class, content_desc, clickable, enabled) ==
    [text |-> text, resource_id |-> resource_id, class |-> class,
     content_desc |-> content_desc, clickable |-> clickable, enabled |-> enabled]

Str_OK == <<"O", "K">>
Str_OKAY == <<"O", "K", "A", "Y">>
Str_ab == <<"a", "b">>
Str_cab == <<"c", "a", "b">>
Str_Button == <<"B", "t", "n">>
Str_node == <<"n", "o", "d", "e">>

FormDoc ==
    [tag |-> "hierarchy", par |-> <<0, 1, 1, 1, 1, 5>>,
     bounds |-> <<Absent, BoundsStr(<<0, 0, 10, 10>>), BoundsStr(<<0, 10, 10, 20>>),
                  BoundsStr(<<0, 20, 10, 30>>), Absent, BoundsStr(<<0, 30, 10, 40>>)>>,
     attrs |-> <<NoAttrs,
                 Attrs(Some(Str_OK), Some(Str_ab), Some(Str_Button), Some(Str_OK),
                       Some("true"), NoValue),
                 Attrs(Some(<<>>), NoValue, NoValue, Some(Str_ab),
                       Some("false"), Some("false")),
                 Attrs(Some(Str_OKAY), Some(Str_cab), Some(Str_Button), Some(<<>>),
                       NoValue, Some("true")),
                 Attrs(Some(Str_OK), Some(Str_ab), Some(Str_Button), Some(Str_OK),
                       Some("true"), Some("true")),
                 NoAttrs>>]

FindDocs == {FormDoc, SimpleDoc, EmptyDoc}

\* the values a criterion of find_elements is given
CriterionValues ==
    [text |-> {Some(Str_OK), Some(<<>>)},
     text_contains |-> {Some(Str_OK), Some(<<"A">>), Some(<<>>)},
     resource_id |-> {Some(Str_ab)},
     resource_id_contains |-> {Some(Str_ab), Some(<<"c">>)},
     class_name |-> {Some(Str_Button), Some(Str_node)},
     content_desc |-> {Some(Str_OK), Some(<<>>)},
     clickable |-> {Some(TRUE), Some(FALSE)},
     enabled |-> {Some(TRUE), Some(FALSE)}]

\* the calls that give the criteria c and one more (or one of c's again)
WithOneMore(c) ==
    UNION { { [c EXCEPT ![k] = v] : v \in CriterionValues[k] } : k \in DOMAIN NoCriteria }

\* calls of find_elements that give at most two criteria
FindCriteria ==
    {NoCriteria} \cup WithOneMore(NoCriteria)
                 \cup UNION { WithOneMore(c) : c \in WithOneMore(NoCriteria) }

\* snapshots of one device taken, searched and dropped by one thread
NextFind ==
    /\ \/ /\ uuid_counter < MaxSeqIds
          /\ \E d \in SequentialDevices, doc \in FindDocs :
                CreateSnapshot_Store("t1", d, doc)
       \/ CreateSnapshot_Evict("t1")
       \/ CreateSnapshot_SetCurrent("t1")
       \/ \E d \in SequentialDevices, c \in FindCriteria :
             FindElements("t1", d, c)
       \/ \E d \in SequentialDevices : Invalidate("t1", d)
    /\ UNCHANGED <<parseVars, dmVars, toolVars>>

SpecFind == InitSeq /\ [][NextFind]_vars

\* serials of devices: six well-formed ones, the cache holding five
SerialSeq == << <<"a">>, <<"b">>, <<"c">>, <<"d">>, <<"e">>, <<"f">> >>

Serials == { SerialSeq[i] : i \in 1..Len(SerialSeq) }

\* the serials a caller asks for: those in the cache and, the serials being alike,
\* the first one that is not
SerialsAsked ==
    { SerialSeq[i] : i \in { i \in 1..Len(SerialSeq) :
                               \A j \in 1..(i - 1) : SerialSeq[j] \in DOMAIN _cache } }

\* the cache after the first MAX_CACHED_DEVICES - 1 serials were acquired, one after
\* the other, at time 0
InitCache ==
    /\ SMInit
    /\ ToolInit
    /\ _max_snapshots = MaxSnapshotsArg
    /\ p_doc = EmptyDoc
    /\ p_out = Unparsed
    /\ _cache = [k \in { SerialSeq[i] : i \in 1..(MAX_CACHED_DEVICES - 1) } |->
                    CachedDevice((CHOOSE i \in 1..Len(SerialSeq) : SerialSeq[i] = k) - 1, 0)]
    /\ _cache_lock = NoThread
    /\ _selected_device = NoValue
    /\ handle_counter = MAX_CACHED_DEVICES - 1

\* the connection cache used by two threads; of the serials in the cache they ask for
\* the first two
NextCache ==
    /\ \E t \in Threads :
          \/ \E serial \in { x \in SerialsAsked :
                                 x \notin DOMAIN _cache \/ x \in {SerialSeq[1], SerialSeq[2]} } :
                GetDevice_Enter(t, NoTool, Some(serial))
          \/ \E connected \in BOOLEAN : GetDevice_Connected(t, connected)
          \/ \E alive \in BOOLEAN : GetDevice_Probed(t, alive)
          \/ \E ended \in BOOLEAN : GetDevice_BlockEnds(t, ended)
          \/ GetDevice_Lost(t)
          \/ Disconnect(t, Some(SerialSeq[1]))
          \/ DisconnectAll(t)
    /\ UNCHANGED <<parseVars, toolVars>>

\* device ids handed to get_device, select_device and resolve_device_id: None, two
\* serials, the empty and a blank string, a string of MAX_DEVICE_ID_LENGTH + 1
\* characters, and serials with a character outside the class in the middle and
\* with a newline at the end
LongId == [i \in 1..(MAX_DEVICE_ID_LENGTH + 1) |-> "a"]

IdInputs ==
    {NoValue, Some(SerialSeq[1]), Some(SerialSeq[2]), Some(<<>>), Some(<<" ">>),
     Some(LongId), Some(<<"a", ";", "b">>), Some(<<"a", "\n">>)}

\* the serials adb may list as available
AvailableSerials == {SerialSeq[1], SerialSeq[2]}

\* the tools and the device manager called by one thread with any of the ids
NextIds ==
    /\ \/ \E tool \in ((DOMAIN PassThrough) \ RefInBlockTools) \union {NoTool},
             device_id \in IdInputs :
              GetDevice_Enter("t1", tool, device_id)
       \/ \E devices \in BOOLEAN : GetDevice_Listed("t1", devices)
       \/ \E connected \in BOOLEAN : GetDevice_Connected("t1", connected)
       \/ GetDevice_Probed("t1", TRUE)
       \/ GetDevice_BlockEnds("t1", TRUE)
       \/ \E device_id \in IdInputs \ {NoValue} : SelectDevice_Enter("t1", device_id)
       \/ \E available \in SUBSET AvailableSerials : SelectDevice_Listed("t1", available)
       \/ \E device_id \in IdInputs : ResolveDeviceId("t1", device_id)
    /\ UNCHANGED <<parseVars, toolVars>>

SpecIds == InitSeq /\ [][NextIds]_vars

\* one thread that selects a device or none, acquires and disconnects the selected
\* or default device and another one, and resolves ids
NextDefault ==
    /\ \/ \E device_id \in {NoValue, Some(SerialSeq[1]), Some(SerialSeq[2])} :
              \/ GetDevice_Enter("t1", NoTool, device_id)
              \/ Disconnect("t1", device_id)
              \/ \E available \in SUBSET AvailableSerials :
                    ResolveDeviceIdOrDefault("t1", device_id, available)
       \/ \E devices \in BOOLEAN : GetDevice_Listed("t1", devices)
       \/ \E connected \in BOOLEAN : GetDevice_Connected("t1", connected)
       \/ GetDevice_Probed("t1", TRUE)
       \/ GetDevice_BlockEnds("t1", TRUE)
       \/ SelectDevice_Enter("t1", Some(SerialSeq[1]))
       \/ \E available \in SUBSET AvailableSerials : SelectDevice_Listed("t1", available)
       \/ DisconnectAll("t1")
    /\ UNCHANGED <<parseVars, toolVars>>

SpecDefault == InitSeq /\ [][NextDefault]_vars

\* snapshots of one device taken by one thread, which changes the snapshots it was
\* handed and resolves refs while the clock runs
NextCallers ==
    /\ \/ Tick
       \/ /\ uuid_counter < MaxSeqIds
          /\ \E d \in SequentialDevices, doc \in {SimpleDoc, NestedDoc} :
                CreateSnapshot_Store("t1", d, doc)
       \/ CreateSnapshot_Evict("t1")
       \/ CreateSnapshot_SetCurrent("t1")
       \/ \E d \in SequentialDevices : GetCurrentSnapshot("t1", d)
       \/ \E d \in SequentialDevices, ref \in SequentialRefs :
             ResolveRef_Call("t1", "resolve_ref", d, ref, TRUE, NoNumber)
       \/ ResolveRef_Validate("t1")
       \/ ResolveRef_RaiseStale("t1")
       \/ \E d \in SequentialDevices, i \in 1..MaxSeqIds, change \in CallerChanges :
             /\ i <= Len(completed[d])
             /\ Caller_Changes("t1", d, completed[d][i], change)
    /\ UNCHANGED <<parseVars, dmVars, toolVars>>

SpecCallers == InitSeq /\ [][NextCallers]_vars

\* the manager after start_recording was called at time 0 for MAX_RECORDINGS - 1
\* devices, which are numbered
InitRecordings ==
    /\ SMInit
    /\ DMInit
    /\ LoopsInit
    /\ _max_snapshots = MaxSnapshotsArg
    /\ p_doc = EmptyDoc
    /\ p_out = Unparsed
    /\ _recordings = [i \in 1..(MAX_RECORDINGS - 1) |-> GestureRecording(i - 1, i, 0, TRUE)]
    /\ _active = [d \in 1..(MAX_RECORDINGS - 1) |-> d - 1]
    /\ rec_counter = MAX_RECORDINGS - 1

\* the recording ids a caller stops, deletes and imports again: the two oldest and
\* the ones made in the run
RecordingIdsAsked == {0, 1} \cup ((MAX_RECORDINGS - 1)..(MaxRecordingIds - 1))

\* one thread that starts recordings for one more device and stops, deletes and
\* imports recordings while the clock runs
NextRecordings ==
    /\ \/ Tick /\ UNCHANGED recVars
       \/ StartRecording("t1", MAX_RECORDINGS)
       \/ \E recording_id \in RecordingIdsAsked : StopRecording("t1", recording_id)
       \/ \E recording_id \in RecordingIdsAsked : DeleteRecording("t1", recording_id)
       \/ \E recording_id \in (MAX_RECORDINGS - 1)..(MaxRecordingIds - 1) :
             AddEvent("t1", recording_id)
       \/ \E parsed \in BOOLEAN, given_id \in {NoValue, Some(0)} :
             ImportRecording("t1", parsed, given_id, MAX_RECORDINGS)
    /\ UNCHANGED <<parseVars, dmVars, watcherVars, monitorVars>>

SpecRecordings == InitRecordings /\ [][NextRecordings]_vars

\* the timestamps of the events of the recording that is played
PlayEvents == {<<>>, <<0>>, <<0, 1, 2>>, <<0, 601>>, <<0, 1201>>}

\* a manager with one recording, imported with events
InitPlay ==
    /\ SMInit
    /\ DMInit
    /\ LoopsInit
    /\ _max_snapshots = MaxSnapshotsArg
    /\ p_doc = EmptyDoc
    /\ p_out = Unparsed
    /\ \E events \in PlayEvents :
          _recordings = <<[GestureRecording(0, SerialSeq[1], 0, FALSE)
                              EXCEPT !.events = events]>>
    /\ _active = EmptyDict
    /\ rec_counter = 1

\* one thread that plays the recording, and one that is not there, on the device of
\* the recording and on another one at several speeds
NextPlay ==
    /\ \/ \E recording_id \in {0, 1}, device_id \in {NoValue, Some(SerialSeq[2])},
             speed \in {0, 1, 2} :
             PlayRecording_Enter("t1", recording_id, device_id, speed)
       \/ \E outcome \in PlayAcquisitions : PlayRecording_GetDevice("t1", outcome)
       \/ \E raises \in BOOLEAN : PlayRecording_Event("t1", raises)
       \/ PlayRecording_Return("t1")
    /\ UNCHANGED parseVars

SpecPlay == InitPlay /\ [][NextPlay]_vars

\* the monitor after MAX_MONITORING_SESSIONS - 1 sessions were started with the
\* interval 1, of which the first has polled MAX_SNAPSHOTS_PER_SESSION - 1 times
InitSessions ==
    /\ SMInit
    /\ DMInit
    /\ _max_snapshots = MaxSnapshotsArg
    /\ p_doc = EmptyDoc
    /\ p_out = Unparsed
    /\ watcher_running = FALSE
    /\ watcher_loops = <<>>
    /\ monitor_running = FALSE
    /\ monitor_loop = NoLoop
    /\ _recordings = <<>>
    /\ _active = EmptyDict
    /\ rec_counter = 0
    /\ _sessions = [i \in 1..(MAX_MONITORING_SESSIONS - 1) |->
                       [MonitoringSession(i - 1, 1) EXCEPT
                           !.snapshots = IF i = 1 THEN MAX_SNAPSHOTS_PER_SESSION - 1
                                         ELSE 0]]
    /\ _poll_interval = 1
    /\ session_counter = MAX_MONITORING_SESSIONS - 1

\* the sessions that are stopped and whose threads get to run: the first one and
\* the first one started in the run
SessionsAsked == {0, MAX_MONITORING_SESSIONS - 1}

\* one thread that starts sessions with two intervals and stops sessions, and the
\* loops of the sessions, whose polls succeed for a session that has fewer than
\* MaxPolls snapshots or a list that is full or one short of it
NextSessions ==
    /\ \/ \E poll_interval \in {1, 2} : StartMonitoring("t1", poll_interval)
       \/ \E session_id \in SessionsAsked : StopMonitoring("t1", session_id)
       \/ \E session_id \in SessionsAsked, failure \in MonitorFailures :
             /\ (failure = "none" /\ HasSession(session_id)) =>
                   LET n == _sessions[IndexOfSession(session_id)].snapshots
                   IN  n < MaxPolls \/ n >= MAX_SNAPSHOTS_PER_SESSION - 1
             /\ SessionLoopStep(session_id, failure)
    /\ UNCHANGED <<parseVars, dmVars>>

SpecSessions == InitSessions /\ [][NextSessions]_vars

\* the serials of the two devices whose screens are captured
CaptureSerials == {<<"d", "1">>, <<"d", "2">>}

\* device.dump_hierarchy() of the handle of a device: the two devices show
\* different screens
dump_hierarchy(key) == IF SnapshotKey(key) = "d1" THEN SimpleDoc ELSE NestedDoc

\* _capture_snapshot, lines 22-39, from the yield of get_device on: the hierarchy is
\* dumped through the handle, the device id is resolved once more, and
\* create_snapshot is entered with it
CaptureSnapshot_Create(t) ==
    /\ pc[t] = "gd_yield"
    /\ frame[t].tool = "device_snapshot"
    /\ LET xml_content == dump_hierarchy(frame[t].cache_key)
           resolved_id == resolve_device_id_or_default(frame[t].device_id)
       IN  CreateSnapshot_Body(t, SnapshotKey(resolved_id), xml_content)
    /\ UNCHANGED dmVars

\* the first device is selected
InitCapture ==
    /\ SMInit
    /\ ToolInit
    /\ _max_snapshots = MaxSnapshotsArg
    /\ p_doc = EmptyDoc
    /\ p_out = Unparsed
    /\ _cache = EmptyDict
    /\ _cache_lock = NoThread
    /\ _selected_device = Some(<<"d", "1">>)
    /\ handle_counter = 0

\* a thread that captures the screen of the selected device while another one
\* selects devices
NextCapture ==
    /\ \/ GetDevice_Enter("t1", "device_snapshot", NoValue)
       \/ \E connected \in BOOLEAN : GetDevice_Connected("t1", connected)
       \/ GetDevice_Probed("t1", TRUE)
       \/ CaptureSnapshot_Create("t1")
       \/ CreateSnapshot_Evict("t1") /\ UNCHANGED dmVars
       \/ CreateSnapshot_SetCurrent("t1") /\ UNCHANGED dmVars
       \/ \E device_id \in CaptureSerials : SelectDevice_Enter("t2", Some(device_id))
       \/ SelectDevice_Listed("t2", CaptureSerials)
    /\ UNCHANGED <<parseVars, toolVars>>

SpecCapture == InitCapture /\ [][NextCapture]_vars

\* the device the interaction tools are called for
ToolDevice == <<"d", "1">>

\* the refs the tools are called with: one of SimpleDoc and one of no document
ToolRefs == {"e0", "e10"}

\* one thread that takes snapshots of a device and calls the interaction tools with
\* refs while the clock runs
NextTools ==
    /\ \/ /\ \/ Tick
             \/ /\ uuid_counter < MaxSeqIds
                /\ CreateSnapshot_Store("t1", SnapshotKey(ToolDevice), SimpleDoc)
             \/ CreateSnapshot_Evict("t1")
             \/ CreateSnapshot_SetCurrent("t1")
          /\ UNCHANGED dmVars
       \/ \E ref \in ToolRefs : DeviceTap_Enter("t1", ref, Some(ToolDevice))
       \/ \E tool \in RefInBlockTools : GetDevice_Enter("t1", tool, Some(ToolDevice))
       \/ \E connected \in BOOLEAN : GetDevice_Connected("t1", connected)
       \/ GetDevice_Probed("t1", TRUE)
       \/ \E ref \in ToolRefs : InteractionTool_Block("t1", ref)
       \/ GetDevice_BlockEnds("t1", TRUE)
       \/ GetDevice_Lost("t1")
    /\ UNCHANGED <<parseVars, toolVars>>

SpecTools == InitSeq /\ [][NextTools]_vars

\* the watcher of one device, started and stopped by a thread, and its loops
NextWatcher ==
    /\ \/ \E poll_interval \in {-1, 0, 1} : WatcherStart("t1", poll_interval)
       \/ WatcherStop("t1")
       \/ \E i \in 1..MaxStarts : WatcherLoopStep(i, WatcherFailures)
    /\ UNCHANGED <<parseVars, dmVars>>

SpecWatcher == InitSeq /\ [][NextWatcher]_vars

\* the failures of the poll cycles while the loops are started and stopped
LoopFailures == {"none", "DeviceConnectionError"}

\* the watcher of one device and one monitoring session, started and stopped by a
\* thread, and their background loops
NextLoops ==
    /\ \/ WatcherStart("t1", 1)
       \/ WatcherStop("t1")
       \/ MonitorStart("t1")
       \/ MonitorStop("t1")
       \/ \E i \in 1..MaxStarts : WatcherLoopStep(i, LoopFailures)
       \/ MonitorLoopStep
    /\ UNCHANGED <<parseVars, dmVars>>

SpecLoops == InitSeq /\ [][NextLoops]_vars

\* the loops are threads that get to run, and their sleeps and poll cycles end
SpecLoopsFair ==
    /\ SpecLoops
    /\ \A i \in 1..MaxStarts :
          WF_vars(WatcherLoopStep(i, LoopFailures) /\ UNCHANGED <<parseVars, dmVars>>)
    /\ WF_vars(MonitorLoopStep /\ UNCHANGED <<parseVars, dmVars>>)

\* the connection cache used by one thread while the clock runs
NextLRU ==
    /\ \/ \E serial \in SerialsAsked : GetDevice_Enter("t1", NoTool, Some(serial))
       \/ GetDevice_Enter("t1", NoTool, NoValue)
       \/ \E devices \in BOOLEAN : GetDevice_Listed("t1", devices)
       \/ \E connected \in BOOLEAN : GetDevice_Connected("t1", connected)
       \/ GetDevice_Probed("t1", TRUE)
       \/ GetDevice_BlockEnds("t1", TRUE)
       \/ \E dt \in {CACHE_TTL_SECONDS, CACHE_TTL_SECONDS + 1} : Sleep(dt)
    /\ UNCHANGED <<parseVars, toolVars>>

SpecLRU == InitCache /\ [][NextLRU]_vars

SpecCache == InitCache /\ [][NextCache]_vars

-----------------------------------------------------------------------------
(* Claims about the history and the current pointer, checked under Spec.    *)
(* A state in which no thread holds the manager's lock is a state another   *)
(* caller can observe; while create_snapshot holds the lock it is between   *)
(* its statements.                                                          *)

Last(seq) == seq[Len(seq)]

OrderOf(d) == IF d \in DOMAIN _snapshot_order THEN _snapshot_order[d] ELSE <<>>

StoredIds(d) == IF d \in DOMAIN _snapshots THEN DOMAIN _snapshots[d] ELSE {}

SeqRange(seq) == { seq[i] : i \in 1..Len(seq) }

\* the history depth the manager enforces: the configured one, and at least 1
HistoryLimit == IF _max_snapshots < 1 THEN 1 ELSE _max_snapshots

\* C1: in every state another caller can observe, under any interleaving of
\* create_snapshot, get_current_snapshot, invalidate and clear_all by two threads
\* over two devices, a device's current pointer is absent or names a snapshot that is
\* still stored in that device's history; and get_current_snapshot never returns a
\* snapshot that is not stored.
C1_CurrentNeverEvicted ==
    /\ _lock = NoThread =>
          \A d \in DOMAIN _current :
             /\ _current[d] \in StoredIds(d)
             /\ _current[d] \in SeqRange(OrderOf(d))
    /\ \A t \in Threads :
          result[t].kind = "current" /\ result[t].value # NoSnapshot =>
             result[t].value.snapshot_id \in StoredIds(result[t].device_id)

\* C1 witness: a create_snapshot has just returned for a device whose history has
\* already evicted a snapshot, while the other device holds a snapshot too.
C1_Witness ==
    \E t \in Threads, d \in Devices, e \in Devices :
       /\ d # e
       /\ result[t].kind = "Snapshot"
       /\ result[t].value.device_id = d
       /\ Len(completed[d]) > Len(OrderOf(d))
       /\ d \in DOMAIN _current
       /\ e \in DOMAIN _current

\* C2: once a create_snapshot has returned, the device's history holds at most
\* max(1, max_snapshots_per_device) snapshots; after n creations since the last
\* invalidation it holds min(n, limit) of them, namely the most recently created ones
\* in creation order, and get_current_snapshot returns the most recent.
C2_HistoryBound ==
    _lock = NoThread =>
       \A d \in Devices :
          LET n == Len(completed[d])
              kept == Min(n, HistoryLimit)
          IN  /\ Len(OrderOf(d)) <= HistoryLimit
              /\ OrderOf(d) = SubSeq(completed[d], n - kept + 1, n)
              /\ StoredIds(d) = SeqRange(OrderOf(d))
              /\ n > 0 => get_current_snapshot(d).snapshot_id = completed[d][n]

\* C2 witness: a device with more creations than the limit (limit + k, k >= 1) whose
\* history is full.
C2_Witness ==
    /\ _lock = NoThread
    /\ \E d \in Devices :
          /\ Len(completed[d]) > HistoryLimit
          /\ Len(OrderOf(d)) = HistoryLimit
          /\ HistoryLimit >= 2

\* C3: get_current_snapshot returns the snapshot of the create_snapshot call that
\* returned last for the device since its last invalidate / clear_all (none when
\* there was no such call), and the ids still in the history stand in the order in
\* which their creations returned, the current one last.
C3_CurrentIsLastCompleted ==
    /\ _lock = NoThread =>
          \A d \in Devices :
             IF completed[d] = <<>>
             THEN d \notin DOMAIN _current
             ELSE /\ d \in DOMAIN _current
                  /\ _current[d] = Last(completed[d])
                  /\ _current[d] = Last(OrderOf(d))
                  /\ \A i, j \in 1..Len(OrderOf(d)) :
                        i < j =>
                           \E a, b \in 1..Len(completed[d]) :
                              /\ a < b
                              /\ completed[d][a] = OrderOf(d)[i]
                              /\ completed[d][b] = OrderOf(d)[j]
    /\ \A t \in Threads :
          result[t].kind = "current" =>
             result[t].value.snapshot_id =
                IF completed[result[t].device_id] = <<>> THEN NoId
                ELSE Last(completed[result[t].device_id])

\* C3 witness: get_current_snapshot returns the second of two snapshots that the two
\* threads created for one device, both still in the history.
C3_Witness ==
    \E t \in Threads :
       /\ result[t].kind = "current"
       /\ Len(completed[result[t].device_id]) >= 2
       /\ Len(OrderOf(result[t].device_id)) >= 2
       /\ result[t].value.snapshot_id = Last(completed[result[t].device_id])

\* C10 as claimed: a get_current_snapshot for a device returns the snapshot id that
\* the previous get_current_snapshot for the device returned, when no create_snapshot
\* for the device came in between, whatever else ran in between.
C10_SameIdWithoutCreate ==
    \A t \in Threads :
       result[t].kind = "current" /\ result[t].previous # <<>> =>
          result[t].value.snapshot_id = result[t].previous[1]

\* C10 amended: a get_current_snapshot for a device returns the snapshot id that the
\* previous get_current_snapshot for the device returned, when no create_snapshot
\* for the device, no invalidate of the device and no clear_all came in between,
\* whatever else ran in between.
C10_SameIdWithoutCreateOrInvalidate ==
    \A t \in Threads :
       result[t].kind = "current" /\ result[t].previous_valid # <<>> =>
          result[t].value.snapshot_id = result[t].previous_valid[1]

\* C10 witness: a repeated get_current_snapshot returns the same snapshot again
\* after the other device has had snapshots created and invalidated.
C10_Witness ==
    \E t \in Threads :
       /\ result[t].kind = "current"
       /\ result[t].previous_valid # <<>>
       /\ result[t].value # NoSnapshot
       /\ \E e \in Devices :
             /\ e # result[t].device_id
             /\ e \notin DOMAIN _current
             /\ \E id \in DOMAIN source_of : id[1] = e

-----------------------------------------------------------------------------
(* Claims about the reference table, checked under SpecParse.               *)

\* the elements of a document that are nodes: all but a <hierarchy> root
NodesOf(doc) == IF doc.tag = "hierarchy" THEN 2..DocSize(doc) ELSE 1..DocSize(doc)

RECURSIVE IsAncestor(_, _, _)
IsAncestor(doc, a, b) ==
    /\ doc.par[b] # 0
    /\ \/ doc.par[b] = a
       \/ IsAncestor(doc, a, doc.par[b])

InSubtree(doc, top, b) == top = b \/ IsAncestor(doc, top, b)

\* a comes before b in the document: a contains b, or a lies in an earlier child
\* than b of some element
DocBefore(doc, a, b) ==
    /\ a # b
    /\ \/ IsAncestor(doc, a, b)
       \/ \E x, y \in 1..DocSize(doc) :
             /\ doc.par[x] = doc.par[y]
             /\ x < y
             /\ InSubtree(doc, x, a)
             /\ InSubtree(doc, y, b)

\* the nodes whose parsed bounds are not (0,0,0,0)
Numbered(doc) == { j \in NodesOf(doc) : _parse_bounds(BoundsAttr(doc, j)) # <<0, 0, 0, 0>> }

\* how many of the nodes Q come before node j in the document
Rank(doc, Q, j) == Cardinality({ q \in Q : DocBefore(doc, q, j) })

RefKeys == <<"e0", "e1", "e2", "e3", "e4", "e5", "e6", "e7", "e8", "e9", "e10", "e11">>

\* C8: the reference table of a document holds exactly its nodes with parsed bounds
\* other than (0,0,0,0): the table has as many entries as there are such nodes, and
\* the node that has i such nodes before it in depth-first pre-order document order
\* is entry i+1, keyed e<i>, with its parsed bounds.  A node with degenerate bounds
\* has no entry and takes no number; its descendants are numbered.
C8_TableIsPreorderOfNumberedNodes ==
    p_out # Unparsed =>
       /\ p_out.kind = "refs"
       /\ LET Q == Numbered(p_doc)
          IN  /\ Len(p_out.refs) = Cardinality(Q)
              /\ \A j \in Q :
                    LET i == Rank(p_doc, Q, j)
                        e == p_out.refs[i + 1]
                    IN  /\ e.key = RefKeys[i + 1]
                        /\ e.value.ref = e.key
                        /\ e.value.bounds = _parse_bounds(BoundsAttr(p_doc, j))

\* C8 witness: a parsed document whose second element has degenerate bounds and a
\* numbered child (element 4) that comes before its numbered sibling (element 3).
C8_Witness ==
    /\ p_out # Unparsed
    /\ p_doc.par = <<0, 1, 1, 2>>
    /\ 2 \notin Numbered(p_doc)
    /\ {3, 4} \subseteq Numbered(p_doc)
    /\ p_doc.bounds[3] # p_doc.bounds[4]
    /\ Rank(p_doc, Numbered(p_doc), 4) < Rank(p_doc, Numbered(p_doc), 3)

-----------------------------------------------------------------------------
(* Claims about resolve_ref and get_position, checked under SpecSeq.        *)

\* thread t's resolve_ref / get_position has just finished
Finished(t) == "call" \in DOMAIN result[t]

Raised(t, kind) == "raised" \in DOMAIN result[t] /\ result[t].raised.kind = kind

\* the threshold the caller asked for: max_stale_seconds, the manager's default when
\* the caller gave none
AskedThreshold(call) ==
    IF call.max_stale_seconds = NoNumber THEN _default_stale_seconds
    ELSE call.max_stale_seconds[1]

HasRef(snapshot, ref) == \E i \in 1..Len(snapshot.refs) : snapshot.refs[i].key = ref

\* C4: with validate_staleness, a current snapshot older than the threshold makes
\* resolve_ref raise StaleRefError with the snapshot's age, whether or not the ref is
\* in the snapshot; RefNotFoundError is raised only for a snapshot that is not older
\* than the threshold.
C4_StaleCheckedBeforePresence ==
    \A t \in Threads :
       Finished(t) /\ result[t].call.snapshot # NoSnapshot
                   /\ result[t].call.validate_staleness =>
          LET call == result[t].call
              age == call.checked_age[1]
          IN  /\ age > AskedThreshold(call) =>
                    /\ Raised(t, "StaleRefError")
                    /\ result[t].raised.snapshot_age_seconds = now - call.snapshot.timestamp
              /\ Raised(t, "RefNotFoundError") => age <= AskedThreshold(call)

\* C5: with validate_staleness and a threshold T >= 0 given by the caller (0 too),
\* resolve_ref raises StaleRefError exactly when the snapshot's age is greater than T,
\* and returns for a ref of the snapshot when the age is at most T; the default
\* threshold counts only when the caller gave none.
C5_StaleExactlyWhenOlderThanT ==
    \A t \in Threads :
       Finished(t) /\ result[t].call.snapshot # NoSnapshot
                   /\ result[t].call.validate_staleness =>
          LET call == result[t].call
              age == call.checked_age[1]
              T == AskedThreshold(call)
          IN  /\ Raised(t, "StaleRefError") <=> age > T
              /\ age <= T /\ HasRef(call.snapshot, call.ref) =>
                    "returned" \in DOMAIN result[t]

\* C6: resolve_ref and get_position for a device without a current snapshot raise
\* RefNotFoundError for the ref asked for, whatever the ref and the staleness
\* arguments, and nothing else.
C6_NoSnapshotRaisesRefNotFound ==
    \A t \in Threads :
       Finished(t) /\ result[t].call.device_id \notin DOMAIN _current =>
          /\ Raised(t, "RefNotFoundError")
          /\ result[t].raised.ref = result[t].call.ref

\* C6 witness: resolve_ref without staleness validation has just failed for a device
\* whose snapshots were invalidated or cleared.
C6_Witness ==
    \E t \in Threads :
       /\ Finished(t)
       /\ result[t].call.device_id \notin DOMAIN _current
       /\ \E id \in DOMAIN source_of : id[1] = result[t].call.device_id
       /\ ~result[t].call.validate_staleness
       /\ result[t].call.max_stale_seconds # NoNumber

\* the sample of valid ids that a RefNotFoundError carries
SampleOf(error) ==
    IF "available_refs_sample" \in DOMAIN error.details
    THEN error.details.available_refs_sample ELSE <<>>

\* staleness is not validated, or the snapshot is not older than the threshold
PassesStaleness(call) ==
    \/ ~call.validate_staleness
    \/ call.checked_age[1] <= AskedThreshold(call)

\* C7: when the current snapshot is not older than the threshold, or staleness is not
\* validated, resolve_ref returns the descriptor stored under the ref if the snapshot
\* has the ref, and otherwise raises RefNotFoundError with a sample of at most 10
\* ids: the first min(10, n) ids of the snapshot's n, in traversal order.
C7_LookupAndBoundedSample ==
    \A t \in Threads :
       Finished(t) /\ result[t].call.snapshot # NoSnapshot
                   /\ PassesStaleness(result[t].call) =>
          LET call == result[t].call
              refs == call.snapshot.refs
          IN  /\ call.snapshot.snapshot_id = _current[call.device_id]
              /\ IF HasRef(call.snapshot, call.ref)
                 THEN /\ "returned" \in DOMAIN result[t]
                      /\ call.op = "resolve_ref" =>
                            \E i \in 1..Len(refs) :
                               /\ refs[i].key = call.ref
                               /\ result[t].returned = refs[i].value
                 ELSE /\ Raised(t, "RefNotFoundError")
                      /\ result[t].raised.ref = call.ref
                      /\ Len(SampleOf(result[t].raised)) <= 10
                      /\ SampleOf(result[t].raised) =
                            [i \in 1..Min(10, Len(refs)) |-> refs[i].key]

\* C7 witness: resolve_ref has just failed for a ref that a fresh snapshot of eleven
\* elements does not have, with a sample of ten ids.
C7_Witness ==
    \E t \in Threads :
       /\ Raised(t, "RefNotFoundError")
       /\ result[t].call.snapshot # NoSnapshot
       /\ result[t].call.validate_staleness
       /\ Len(result[t].call.snapshot.refs) = 11
       /\ Len(SampleOf(result[t].raised)) = 10

\* the rectangles that the documents of SpecSeq write as bounds attributes
SourceRects ==
    { <<100, 100, 200, 150>>, <<-40, 301, 60, 400>>, <<0, 0, 1080, 2400>>,
      <<5, 7, 10, 12>> } \cup { <<i, 0, i + 10, 20>> : i \in 1..11 }

\* the rectangle that the document gives as the bounds of node j
SourceRect(doc, j) == CHOOSE r \in SourceRects : BoundsStr(r) = doc.bounds[j]

\* the node of the document that got the ref
NodeOfRef(doc, ref) ==
    LET Q == Numbered(doc)
    IN  CHOOSE j \in Q : RefKeys[Rank(doc, Q, j) + 1] = ref

\* C9: for a ref of a snapshot, resolve_ref returns a descriptor whose bounds are the
\* four integers of the node's bounds in the source document and whose center is
\* (floor((left+right)/2), floor((top+bottom)/2)); get_position returns that point.
C9_RoundTrip ==
    \A t \in Threads :
       Finished(t) /\ "returned" \in DOMAIN result[t] =>
          LET call == result[t].call
              doc == source_of[call.snapshot.snapshot_id]
              r == SourceRect(doc, NodeOfRef(doc, call.ref))
              mid == <<(r[1] + r[3]) \div 2, (r[2] + r[4]) \div 2>>
          IN  IF call.op = "get_position"
              THEN result[t].returned = mid
              ELSE /\ result[t].returned.bounds = r
                   /\ center(result[t].returned) = mid

-----------------------------------------------------------------------------
(* Claims about find_elements, checked under SpecFind.                      *)

\* sub occurs in s as a run of consecutive characters
IsSubstring(sub, s) == \E i, j \in 0..Len(s) : i <= j /\ SubSeq(s, i + 1, j) = sub

\* the descriptor e satisfies every criterion that c gives
Satisfies(e, c) ==
    /\ c.text # NoValue => e.text # NoValue /\ e.text[1] = c.text[1]
    /\ c.text_contains # NoValue =>
          e.text # NoValue /\ IsSubstring(c.text_contains[1], e.text[1])
    /\ c.resource_id # NoValue =>
          e.resource_id # NoValue /\ e.resource_id[1] = c.resource_id[1]
    /\ c.resource_id_contains # NoValue =>
          e.resource_id # NoValue /\ IsSubstring(c.resource_id_contains[1], e.resource_id[1])
    /\ c.class_name # NoValue => e.class_name = c.class_name[1]
    /\ c.content_desc # NoValue =>
          e.content_desc # NoValue /\ e.content_desc[1] = c.content_desc[1]
    /\ c.clickable # NoValue => (e.clickable <=> c.clickable[1])
    /\ c.enabled # NoValue => (e.enabled <=> c.enabled[1])

\* C11: find_elements returns the descriptors of the device's current snapshot that
\* satisfy every criterion given, each once and in the snapshot's traversal order,
\* and the empty sequence when the device has no current snapshot.
C11_FindReturnsMatchesInOrder ==
    \A t \in Threads :
       "find" \in DOMAIN result[t] =>
          LET d == result[t].find.device_id
              c == result[t].find.criteria
              out == result[t].returned
          IN  IF d \notin DOMAIN _current THEN out = <<>>
              ELSE LET refs == _snapshots[d][_current[d]].refs
                       hits == { i \in 1..Len(refs) : Satisfies(refs[i].value, c) }
                   IN  /\ Len(out) = Cardinality(hits)
                       /\ \A i \in hits :
                             out[Cardinality({ h \in hits : h <= i })] = refs[i].value

\* C11 witness: a search by substring of the text and by class has just returned the
\* first and the third of the four descriptors of the current snapshot.
C11_Witness ==
    \E t \in Threads :
       /\ "find" \in DOMAIN result[t]
       /\ result[t].find.criteria.text_contains # NoValue
       /\ result[t].find.criteria.class_name # NoValue
       /\ result[t].find.snapshot # NoSnapshot
       /\ Len(result[t].find.snapshot.refs) = 4
       /\ Len(result[t].returned) = 2
       /\ result[t].returned[1].ref = "e0"
       /\ result[t].returned[2].ref = "e2"

-----------------------------------------------------------------------------
(* Claims about what an operation on one device leaves alone, checked under *)
(* Spec.                                                                    *)

\* what the manager holds for device e: its snapshots, their order, its current id
HeldFor(e) ==
    <<IF e \in DOMAIN _snapshots THEN Some(_snapshots[e]) ELSE NoValue,
      IF e \in DOMAIN _snapshot_order THEN Some(_snapshot_order[e]) ELSE NoValue,
      IF e \in DOMAIN _current THEN Some(_current[e]) ELSE NoValue>>

\* this step is invalidate(d) by thread t
InvalidateStep(t, d) ==
    /\ "kind" \in DOMAIN result'[t]
    /\ result'[t].kind = "invalidated"
    /\ result'[t].device_id = d

\* this step is a step of create_snapshot(d, ..) by thread t
CreateStep(t, d) ==
    /\ pc'[t] # pc[t]
    /\ \/ frame[t].op = "create_snapshot" /\ frame[t].device_id = d
       \/ frame'[t].op = "create_snapshot" /\ frame'[t].device_id = d

C13_CacheWithinCapacity == Cardinality(DOMAIN _cache) <= MAX_CACHED_DEVICES

\* the cache is full and holds the device connected last: a connect at capacity
\* has been made
C13_Witness ==
    /\ Cardinality(DOMAIN _cache) = MAX_CACHED_DEVICES
    /\ handle_counter > MAX_CACHED_DEVICES
    /\ \E k \in DOMAIN _cache : _cache[k].device = handle_counter - 1

\* after is before without exactly one entry, one of least last_used
EvictedOldest(before, after) ==
    \E k \in DOMAIN before :
        /\ \A j \in DOMAIN before : before[k].last_used <= before[j].last_used
        /\ DOMAIN after = (DOMAIN before) \ {k}
        /\ \A j \in DOMAIN after : after[j] = before[j]

\* the get_device calls of thread t that found the cache full of unexpired entries
\* without their key, and have passed the eviction or were left with an error of
\* one of the kinds given
MissesAtCapacity(t, kinds) ==
    { f \in (IF pc[t] \in {"gd_connect", "gd_probe", "gd_yield"} THEN {frame[t]} ELSE {})
            \union
            (IF /\ "acquire" \in DOMAIN result[t]
                /\ "raised" \in DOMAIN result[t]
                /\ result[t].raised.kind \in kinds
                /\ "reason" \in DOMAIN result[t].raised => result[t].raised.reason = "connect"
             THEN {result[t].acquire} ELSE {}) :
        "full_cache" \in DOMAIN f /\ f.full_cache # NoValue }

\* C14 as it reads: when the cache holds MAX_CACHED_DEVICES unexpired entries and
\* get_device is called for a key not in the cache, exactly one entry is evicted, one
\* whose last_used is the smallest, and every other entry stays with its handle
\* unchanged -- whatever the outcome of the call.
C14_EvictsExactlyTheOldest ==
    \A f \in MissesAtCapacity("t1", {"DeviceConnectionError", "DeviceNotFoundError"}) :
        EvictedOldest(f.full_cache[1], DictPop(_cache, f.cache_key))

\* C14, amended: the same, for the calls that do not fail with DeviceNotFoundError
\* before the eviction (the default device with no device available).
C14_EvictsExactlyTheOldestUnlessNotFound ==
    \A f \in MissesAtCapacity("t1", {"DeviceConnectionError"}) :
        EvictedOldest(f.full_cache[1], DictPop(_cache, f.cache_key))

\* a connect at capacity is done, the full cache had one oldest entry, and that one
\* is gone
C14_Witness ==
    /\ pc["t1"] = "gd_probe"
    /\ frame["t1"].full_cache # NoValue
    /\ LET before == frame["t1"].full_cache[1]
       IN  \E k \in DOMAIN before :
               /\ \A j \in (DOMAIN before) \ {k} : before[k].last_used < before[j].last_used
               /\ k \notin DOMAIN _cache
               /\ Cardinality(DOMAIN _cache) = MAX_CACHED_DEVICES

\* the entries of the cache that are older than the TTL now
ExpiredKeys == { j \in DOMAIN _cache : now - _cache[j].last_used > CACHE_TTL_SECONDS }

\* thread t's step is the start of a get_device call with a valid id
AcquisitionStarts(t) ==
    pc[t] = "idle" /\ pc'[t] \in {"gd_probe", "gd_connect", "gd_list"}

\* C15: every acquisition first removes all entries with age > CACHE_TTL_SECONDS; a
\* key whose entry was removed that way is served by a new connection (a handle no
\* entry holds); an entry with age <= TTL is reused and its last_used refreshed; so
\* no cached handle last used more than TTL ago is yielded.
C15_ExpiredNeverReused ==
    [][\A t \in Threads :
          /\ AcquisitionStarts(t) =>
                LET f == frame'[t]
                    k == f.cache_key
                IN  /\ \A j \in ExpiredKeys : j \notin DOMAIN _cache'
                    /\ k \in ExpiredKeys => ~f.hit /\ pc'[t] \in {"gd_connect", "gd_list"}
                    /\ k \in (DOMAIN _cache) \ ExpiredKeys =>
                          /\ f.hit
                          /\ pc'[t] = "gd_probe"
                          /\ f.device = Some(_cache[k].device)
                          /\ _cache'[k] = [device |-> _cache[k].device, last_used |-> now]
                    /\ f.hit => k \in (DOMAIN _cache) \ ExpiredKeys
          /\ pc[t] = "gd_connect" /\ pc'[t] = "gd_probe" =>
                /\ ~frame'[t].hit
                /\ frame'[t].device = Some(handle_counter)
                /\ \A j \in DOMAIN _cache : _cache[j].device # handle_counter
                /\ _cache'[frame[t].cache_key] = [device |-> handle_counter, last_used |-> now]
          /\ "yielded" \in DOMAIN result'[t] =>
                result'[t].yielded = frame[t].device[1]
      ]_vars

\* the first device is being connected anew although nothing was ever evicted (no
\* connect was made since the start): its entry expired, while an entry touched
\* exactly CACHE_TTL_SECONDS ago is still there
C15_Witness ==
    /\ pc["t1"] = "gd_connect"
    /\ frame["t1"].cache_key = SerialSeq[1]
    /\ handle_counter = MAX_CACHED_DEVICES - 1
    /\ \E j \in DOMAIN _cache : now - _cache[j].last_used = CACHE_TTL_SECONDS

\* the handles that are in the cache or in the hands of a call
HandlesInUse ==
    { _cache[j].device : j \in DOMAIN _cache }
    \union { frame[u].device[1] : u \in { u \in Threads : /\ frame[u].op = "get_device"
                                                          /\ frame[u].device # NoValue } }

\* C16: whenever get_device for key k fails with DeviceConnectionError (the connect
\* failed, or the probe of the new or cached handle failed), no entry for k is in
\* the cache afterwards; a call for a key without entry makes a new connect, and a
\* new connect gives a handle that was not in use before, so not the failed one.
C16_FailedEntryPurged ==
    [][\A t \in Threads :
          /\ ( /\ "acquire" \in DOMAIN result'[t]
               /\ "raised" \in DOMAIN result'[t]
               /\ result'[t].raised.kind = "DeviceConnectionError" ) =>
                /\ result'[t].acquire.cache_key \notin DOMAIN _cache'
                /\ result'[t].acquire.device # NoValue =>
                      \A j \in DOMAIN _cache' :
                          _cache'[j].device # result'[t].acquire.device[1]
          /\ AcquisitionStarts(t) /\ frame'[t].cache_key \notin DOMAIN _cache =>
                ~frame'[t].hit /\ pc'[t] \in {"gd_connect", "gd_list"}
          /\ pc[t] = "gd_connect" /\ pc'[t] = "gd_probe" =>
                /\ frame'[t].device = Some(handle_counter)
                /\ \A h \in HandlesInUse : h < handle_counter
      ]_vars

\* the probe of a cached handle failed and the call was left with
\* DeviceConnectionError
C16_Witness ==
    \E t \in Threads :
        /\ "raised" \in DOMAIN result[t]
        /\ result[t].raised.kind = "DeviceConnectionError"
        /\ result[t].raised.reason = "Connection lost"
        /\ result[t].acquire.hit
        /\ result[t].acquire.cache_key \notin DOMAIN _cache

\* C18: no thread holds the cache lock while a blocking device operation (connect,
\* device listing, liveness probe) is in progress.
C18_NoLockAcrossBlockingCall ==
    \A t \in Threads : pc[t] \in BlockingPlaces => _cache_lock # t


\* ---------------------------------------------------------------------------------
\* Claims about device ids, device selection and the errors of the tools (SpecIds)
\* ---------------------------------------------------------------------------------

\* the string is empty, whitespace only, longer than MAX_DEVICE_ID_LENGTH, or has at
\* some position a character outside [a-zA-Z0-9._:-]
IsBadFormat(s) ==
    \/ s = <<>>
    \/ \A i \in 1..Len(s) : s[i] \in Whitespace
    \/ Len(s) > MAX_DEVICE_ID_LENGTH
    \/ \E i \in 1..Len(s) : s[i] \notin DeviceIdChars

\* C17: for every device id that is empty, whitespace only, longer than 255
\* characters or has at any position (the last included) a character outside
\* [a-zA-Z0-9._:-], get_device and select_device fail with InvalidDeviceIdError
\* before any connect or device listing is made: no call with such an id is past its
\* validation, and every such call that has finished raised InvalidDeviceIdError
\* having made no device call.
C17_BadIdsRejectedBeforeAnyCall ==
    \A t \in Threads :
        /\ frame[t].op \in {"get_device", "select_device"} /\ frame[t].device_id # NoValue =>
              ~IsBadFormat(frame[t].device_id[1])
        /\ \A call \in {"acquire", "select"} :
              ( /\ call \in DOMAIN result[t]
                /\ result[t][call].device_id # NoValue
                /\ IsBadFormat(result[t][call].device_id[1]) ) =>
                    /\ "raised" \in DOMAIN result[t]
                    /\ result[t].raised.kind = "InvalidDeviceIdError"
                    /\ result[t][call].calls = <<>>

\* C19: every InvalidDeviceIdError, DeviceNotFoundError and DeviceConnectionError
\* raised inside a tool wrapped by wrap_tool_errors reaches the caller of the tool as
\* the same kind of error.
C19_ConnectionErrorsPassTheTools ==
    \A t \in Threads :
        ( /\ "reached_caller" \in DOMAIN result[t]
          /\ result[t].acquire.tool # NoTool
          /\ result[t].raised.kind \in {"InvalidDeviceIdError", "DeviceNotFoundError",
                                        "DeviceConnectionError"} ) =>
              result[t].reached_caller = result[t].raised

\* C20: select_device(id) sets the selected device to id exactly when id passes
\* validate_device_id and is among the available devices; otherwise it raises
\* InvalidDeviceIdError (validation) or DeviceNotFoundError (not available) and the
\* selected device stays what it was.  resolve_device_id(None) returns the selected
\* device, and resolve_device_id(x) returns x for every explicit x.
C20_SelectAndResolve ==
    \A t \in Threads :
        /\ "select" \in DOMAIN result[t] =>
              LET f == result[t].select
              IN  IF ~validate_device_id(f.device_id)
                  THEN /\ "raised" \in DOMAIN result[t]
                       /\ result[t].raised.kind = "InvalidDeviceIdError"
                       /\ f.calls = <<>>
                       /\ _selected_device = f.before
                  ELSE IF f.device_id[1] \in f.available
                  THEN /\ "returned" \in DOMAIN result[t]
                       /\ _selected_device = f.device_id
                  ELSE /\ "raised" \in DOMAIN result[t]
                       /\ result[t].raised.kind = "DeviceNotFoundError"
                       /\ _selected_device = f.before
        /\ "resolve" \in DOMAIN result[t] =>
              result[t].returned = IF result[t].resolve # NoValue
                                   THEN result[t].resolve ELSE _selected_device
        /\ _selected_device # NoValue =>
              validate_device_id(_selected_device) /\ _selected_device[1] \in AvailableSerials

\* a second device has been selected after another one, and an id that was not
\* available has been turned down since
C20_Witness ==
    /\ _selected_device = Some(SerialSeq[2])
    /\ "select" \in DOMAIN result["t1"]
    /\ "raised" \in DOMAIN result["t1"]
    /\ result["t1"].raised.kind = "DeviceNotFoundError"
    /\ result["t1"].select.device_id = Some(SerialSeq[1])
    /\ result["t1"].select.before = Some(SerialSeq[2])


\* ---------------------------------------------------------------------------------
\* Claims about the default device, disconnect and resolve_device_id_or_default
\* ---------------------------------------------------------------------------------

\* C21: get_device with no explicit and no selected device, no "default" entry in the
\* cache and no device available raises DeviceNotFoundError without calling
\* u2.connect, without evicting an unexpired entry and without adding an entry; a
\* failure of u2.connect is raised as DeviceConnectionError.
C21_NoDeviceIsNotFound ==
    [][\A t \in Threads :
          /\ pc[t] = "idle" /\ pc'[t] = "gd_list" =>
                /\ frame'[t].resolved_id = NoValue
                /\ frame'[t].cache_key = DefaultKey
                /\ _cache' = _cleanup_expired_cache(_cache, now)
          /\ pc[t] = "gd_list" /\ pc'[t] = "idle" =>
                /\ result'[t].raised.kind = "DeviceNotFoundError"
                /\ result'[t].acquire.calls = <<"adb devices">>
                /\ _cache' = _cache
                /\ DefaultKey \notin DOMAIN _cache'
          /\ pc[t] = "gd_connect" /\ pc'[t] = "idle" =>
                /\ result'[t].raised.kind = "DeviceConnectionError"
                /\ result'[t].raised.reason = "connect"
                /\ _cache' = _cache
          /\ ( /\ "acquire" \in DOMAIN result'[t]
               /\ "raised" \in DOMAIN result'[t]
               /\ result'[t].raised.kind = "DeviceNotFoundError" ) =>
                pc[t] = "gd_list"
      ]_vars

\* the default device was asked for with the cache full, no device was available,
\* and the call was left with DeviceNotFoundError, the cache still full
C21_Witness ==
    /\ "raised" \in DOMAIN result["t1"]
    /\ result["t1"].raised.kind = "DeviceNotFoundError"
    /\ result["t1"].acquire.full_cache # NoValue
    /\ Cardinality(DOMAIN _cache) = MAX_CACHED_DEVICES


\* C22: after disconnect(d), for every d (None while a device is selected too), the
\* cache has no entry under the key get_device(d) uses; after disconnect_all the
\* cache is empty.
C22_DisconnectRemovesTheKeyOfAcquire ==
    \A t \in Threads :
        "kind" \in DOMAIN result[t] =>
            /\ result[t].kind = "disconnected" =>
                  resolve_device_id_or_default(result[t].device_id) \notin DOMAIN _cache
            /\ result[t].kind = "disconnected all" => _cache = EmptyDict

\* C23: with no explicit id, no selected device and exactly one device available,
\* resolve_device_id_or_default(None) returns the serial of that device, and
\* get_device(None) calls u2.connect with a serial.
C23_SingleDeviceIsUsed ==
    \A t \in Threads :
        /\ ( /\ "resolve_or_default" \in DOMAIN result[t]
             /\ result[t].resolve_or_default = NoValue
             /\ result[t].selected = NoValue
             /\ Cardinality(result[t].available) = 1 ) =>
                result[t].returned \in result[t].available
        /\ ( /\ frame[t].op = "get_device"
             /\ pc[t] = "gd_connect"
             /\ frame[t].device_id = NoValue
             /\ _selected_device = NoValue ) =>
                frame[t].resolved_id # NoValue

\* C24: with no explicit id, no selected device and two or more devices available,
\* resolve_device_id_or_default(None) does not return: neither a device id nor
\* "default".
C24_MultipleDevicesIsAnError ==
    \A t \in Threads :
        ( /\ "resolve_or_default" \in DOMAIN result[t]
          /\ result[t].resolve_or_default = NoValue
          /\ result[t].selected = NoValue
          /\ Cardinality(result[t].available) >= 2 ) =>
              "returned" \notin DOMAIN result[t]


\* ---------------------------------------------------------------------------------
\* Claims about the background polling loops (SpecWatcher, SpecLoopsFair)
\* ---------------------------------------------------------------------------------

\* C25: if a poll cycle of a watcher loop hits a DeviceConnectionError, the loop
\* stops at once: it is on its way out, and runs no further cycle.
C25_ConnectionErrorStopsTheLoop ==
    \A i \in 1..Len(watcher_loops) :
        watcher_loops[i].last_failure = "DeviceConnectionError" =>
            watcher_loops[i].pc \in {"cleanup", "done"}

\* C26: a loop counts the poll cycles that fail in a row -- a failed cycle adds one,
\* a successful one resets the count to zero -- and with the 10th it stops itself.
C26_TenFailuresStopTheLoop ==
    [][\A i \in 1..Len(watcher_loops) :
          ( /\ Len(watcher_loops') = Len(watcher_loops)
            /\ watcher_loops[i].pc = "cycle"
            /\ watcher_loops'[i].pc # "cycle" ) =>
              IF watcher_loops'[i].last_failure = "none"
              THEN /\ watcher_loops'[i].consecutive_errors = 0
                   /\ watcher_loops'[i].pc = "sleep"
              ELSE /\ watcher_loops'[i].consecutive_errors =
                          watcher_loops[i].consecutive_errors + 1
                   /\ watcher_loops'[i].consecutive_errors >= max_consecutive_errors =>
                          watcher_loops'[i].pc = "cleanup"
      ]_vars

\* C27: after stop(device) and until a later start(device), is_running(device) is
\* false, no loop of the device goes from its per-cycle check into a poll cycle, and
\* every loop of the device ends; a monitoring session that was stopped stays
\* stopped, runs no cycle after its next check and its loop ends.
C27_StopEndsTheLoops ==
    /\ [][/\ \A i \in 1..Len(watcher_loops) :
               watcher_loops[i].pc = "check" /\ watcher_loops'[i].pc = "cycle" =>
                   watcher_running
          /\ ~watcher_running /\ watcher_running' =>
                 /\ Len(watcher_loops') = Len(watcher_loops) + 1
                 /\ "returned" \in DOMAIN result'["t1"]
          /\ monitor_loop.pc = "check" /\ monitor_loop'.pc = "cycle" => monitor_running
          /\ monitor_loop # NoLoop /\ ~monitor_running => ~monitor_running'
         ]_vars
    /\ \A i \in 1..MaxStarts :
          (Len(watcher_loops) >= i /\ ~watcher_running)
              ~> (watcher_running \/ (Len(watcher_loops) >= i /\ watcher_loops[i].pc = "done"))
    /\ (monitor_loop # NoLoop /\ ~monitor_running) ~> (monitor_loop.pc = "done")

\* the watcher was started and stopped twice and the session once, and all the loops
\* have ended on finding the flag cleared
C27_Witness ==
    /\ Len(watcher_loops) = 2
    /\ \A i \in 1..2 : watcher_loops[i].pc = "done" /\ watcher_loops[i].left_by = "flag"
    /\ monitor_loop.pc = "done"
    /\ monitor_loop.last # "(no cycle)"

\* C28: a ref failure of an interaction tool -- the ref is absent from the current
\* snapshot, or the snapshot is stale -- reaches the caller of device_tap,
\* device_type, device_swipe and clear_text as the RefNotFoundError or StaleRefError
\* that resolving the ref raised, not as a connection error.
C28_RefErrorsReachTheCaller ==
    \A t \in Threads :
        /\ "ref_error" \in DOMAIN result[t] =>
              result[t].reached_caller = result[t].ref_error
        /\ ("acquire" \in DOMAIN result[t] /\ "ref_error" \in DOMAIN result[t].acquire) =>
              /\ "reached_caller" \in DOMAIN result[t]
              /\ result[t].reached_caller = result[t].acquire.ref_error

\* what resolve_ref(device_id, ref) with the staleness check at the default age gives
\* now: the kind of the error, or the element
ResolveRefNow(device_id, ref) ==
    LET snapshot == get_current_snapshot(device_id)
    IN  IF snapshot = NoSnapshot THEN [kind |-> "RefNotFoundError"]
        ELSE IF is_stale(snapshot, max_age_of(NoNumber), now)
        THEN [kind |-> "StaleRefError"]
        ELSE IF ~DictHas(snapshot.refs, ref) THEN [kind |-> "RefNotFoundError"]
        ELSE [kind |-> "ElementInfo", value |-> DictGet(snapshot.refs, ref)]

\* C29: a snapshot is immutable once created -- what a caller does to a snapshot that
\* create_snapshot or get_current_snapshot handed it changes neither what
\* get_current_snapshot returns nor what resolve_ref gives for any ref.
C29_CallersCannotChangeSnapshots ==
    [][(\E t \in Threads : "change" \in DOMAIN result'[t]) =>
          \A d \in SequentialDevices :
             /\ get_current_snapshot(d)' = get_current_snapshot(d)
             /\ \A ref \in SequentialRefs : ResolveRefNow(d, ref)' = ResolveRefNow(d, ref)
      ]_vars

\* C30: the recording manager stores at most MAX_RECORDINGS recordings after any
\* start_recording, stop_recording, delete_recording and import_recording; a
\* start_recording at the limit with no completed recording returns none and stores
\* nothing, and with completed ones it evicts completed recordings, oldest start_time
\* first, and never one in progress.
C30_AtMostMaxRecordings ==
    /\ Len(_recordings) <= MAX_RECORDINGS
    /\ \A t \in Threads :
          ("start_recording" \in DOMAIN result[t]
              /\ Len(result[t].before) >= MAX_RECORDINGS) =>
             LET before == result[t].before
                 gone == { i \in 1..Len(before) :
                             ~HasRecording(_recordings, before[i].recording_id) }
             IN  IF \A i \in 1..Len(before) : before[i].is_recording
                 THEN result[t].returned = NoValue /\ _recordings = before
                 ELSE /\ result[t].returned # NoValue
                      /\ \A i \in gone :
                            /\ ~before[i].is_recording
                            /\ \A j \in 1..Len(before) :
                                  (~before[j].is_recording /\ j \notin gone) =>
                                      before[i].start_time <= before[j].start_time

\* C31: a play_recording that returns has attempted every event of the recording in
\* recorded order, going on after a failed one: events_played plus the number of
\* errors is total_events, the errors name the zero-based positions of the events
\* that failed, in order, and success is true exactly when none failed.
C31_PlayAttemptsEveryEvent ==
    \A t \in Threads :
        ("play_recording" \in DOMAIN result[t] /\ "returned" \in DOMAIN result[t]) =>
            LET f == result[t].play_recording
                r == result[t].returned
            IN  /\ f.attempted = [i \in 1..Len(f.events) |-> i - 1]
                /\ r.total_events = Len(f.events)
                /\ r.events_played + Len(r.errors) = r.total_events
                /\ { r.errors[k].event_index : k \in 1..Len(r.errors) } = f.failed
                /\ \A k \in 1..(Len(r.errors) - 1) :
                      r.errors[k].event_index < r.errors[k + 1].event_index
                /\ r.success <=> f.failed = {}

\* a recording of three events was played, and all but the first event failed
C31_Witness ==
    /\ "returned" \in DOMAIN result["t1"]
    /\ "play_recording" \in DOMAIN result["t1"]
    /\ result["t1"].returned = [success |-> FALSE, events_played |-> 1,
                                total_events |-> 3,
                                errors |-> <<[event_index |-> 1], [event_index |-> 2]>>]

\* C32: every monitoring session polls at the poll_interval of its own
\* start_monitoring call -- each sleep of its loop is given that interval, also after
\* another session was started with a different one.
C32_SessionsKeepTheirInterval ==
    \A i \in 1..Len(_sessions) :
        _sessions[i].slept # NoValue => _sessions[i].slept = Some(_sessions[i].asked)

\* C34: the performance monitor stores at most MAX_MONITORING_SESSIONS sessions, and
\* a session holds at most MAX_SNAPSHOTS_PER_SESSION samples.
C34_SessionsAndSamplesBounded ==
    /\ Len(_sessions) <= MAX_MONITORING_SESSIONS
    /\ \A i \in 1..Len(_sessions) : _sessions[i].snapshots <= MAX_SNAPSHOTS_PER_SESSION

\* C33: a start of the watcher with poll_interval <= 0 raises ValueError and changes
\* neither the running flag nor the threads; a start with a valid interval of a
\* watcher that is not running, also after a rejected one, returns true and starts a
\* loop.
C33_BadIntervalIsRejected ==
    [][(result'["t1"].kind = "watcher start") =>
          IF result'["t1"].poll_interval <= 0
          THEN /\ "raised" \in DOMAIN result'["t1"]
               /\ result'["t1"].raised.kind = "ValueError"
               /\ UNCHANGED watcherVars
          ELSE /\ "returned" \in DOMAIN result'["t1"]
               /\ result'["t1"].returned = ~watcher_running
               /\ ~watcher_running =>
                     /\ watcher_running'
                     /\ watcher_loops' = Append(watcher_loops, NewWatcherLoop)
      ]_vars

\* a start with the interval 0 was rejected after a loop had been started and
\* stopped
C33_Witness ==
    /\ result["t1"].kind = "watcher start"
    /\ result["t1"].poll_interval = 0
    /\ "raised" \in DOMAIN result["t1"]
    /\ ~watcher_running
    /\ Len(watcher_loops) = 1

\* C35: a create_snapshot of a dump that does not parse raises ValueError and stores
\* nothing -- no snapshot stems from such a dump -- and the failed call leaves the
\* histories, the current pointers and the lock as they were, so that
\* get_current_snapshot and resolve_ref give what they gave before it.
C35_FailedCreateChangesNothing ==
    [][/\ \A id \in DOMAIN source_of' : source_of'[id] # Malformed
       /\ (\E t \in Threads : "kind" \in DOMAIN result'[t]
                                 /\ result'[t].kind = "ValueError") =>
             /\ UNCHANGED <<_snapshots, _snapshot_order, _current, _lock>>
             /\ \A d \in SequentialDevices :
                   /\ get_current_snapshot(d)' = get_current_snapshot(d)
                   /\ \A ref \in SequentialRefs :
                         ResolveRefNow(d, ref)' = ResolveRefNow(d, ref)
      ]_vars

\* a create_snapshot has failed for a device that has a current snapshot
C35_Witness ==
    /\ result["t1"] = [kind |-> "ValueError"]
    /\ \E d \in SequentialDevices : get_current_snapshot(d) # NoSnapshot

\* C36: a get_device for a key that fails with DeviceConnectionError removes nothing
\* but that key from the cache: the step that raises leaves every other entry alone,
\* and when the call found the cache at capacity, every entry that was not expired
\* then is, for every other key, still cached with its handle.
C36_FailureRemovesOnlyItsKey ==
    [][\A t \in Threads :
          ( /\ "acquire" \in DOMAIN result'[t]
            /\ "raised" \in DOMAIN result'[t]
            /\ result'[t].raised.kind = "DeviceConnectionError" ) =>
             LET f == result'[t].acquire
             IN  /\ \A j \in (DOMAIN _cache) \ {f.cache_key} :
                       j \in DOMAIN _cache' /\ _cache'[j].device = _cache[j].device
                 /\ f.full_cache # NoValue =>
                       \A j \in (DOMAIN f.full_cache[1]) \ {f.cache_key} :
                           /\ j \in DOMAIN _cache'
                           /\ _cache'[j].device = f.full_cache[1][j].device
      ]_vars

\* C37: a snapshot that device_snapshot stores under the key of a device was dumped
\* through the handle acquired for that device, whatever select_device calls run
\* at the same time.
C37_SnapshotIsOfItsDevice ==
    \A d \in DOMAIN _snapshots :
        \A id \in DOMAIN _snapshots[d] :
            \E key \in CaptureSerials :
                SnapshotKey(key) = d /\ source_of[id] = dump_hierarchy(key)

\* C38: at most one watcher loop of the device polls at any time, whatever the
\* order of the start and stop calls: a loop that stop has told to end does not go
\* into another poll cycle beside the loop of a later start.
C38_AtMostOneLoopPolls ==
    Cardinality({i \in 1..Len(watcher_loops) : watcher_loops[i].pc = "cycle"}) <= 1

\* C39: of the threads that call get_device for a key at the same time, one connects
\* and the others are handed the handle it stored: a connect starts and ends only
\* for a key without a live entry in the cache and with no other connect under way,
\* every handle handed out is the one the cache holds for the key, and an entry
\* that stays in the cache keeps its handle.
C39_OneConnectionPerKey ==
    [][/\ \A t \in Threads :
             /\ (pc[t] = "idle" /\ pc'[t] \in {"gd_list", "gd_connect"}) =>
                    /\ frame'[t].cache_key \notin
                           DOMAIN _cleanup_expired_cache(_cache, now)
                    /\ \A u \in Threads \ {t} : pc[u] \notin {"gd_list", "gd_connect"}
             /\ (pc[t] = "gd_connect" /\ handle_counter' # handle_counter) =>
                    /\ frame[t].cache_key \notin DOMAIN _cache
                    /\ \A u \in Threads \ {t} : pc[u] \notin {"gd_list", "gd_connect"}
             /\ (pc[t] # "gd_probe" /\ pc'[t] = "gd_probe") =>
                    /\ frame'[t].cache_key \in DOMAIN _cache'
                    /\ frame'[t].device = Some(_cache'[frame'[t].cache_key].device)
       /\ \A k \in (DOMAIN _cache) \cap (DOMAIN _cache') :
             _cache'[k].device = _cache[k].device
      ]_vars

\* both threads hold the handle of a key that was not in the cache (its entry had
\* been disconnected): one of them connected, the other found the new entry
C39_Witness ==
    /\ \A t \in Threads : pc[t] = "gd_yield" /\ frame[t].cache_key = SerialSeq[1]
    /\ ~frame["t1"].hit
    /\ frame["t2"].hit
    /\ frame["t1"].device = frame["t2"].device
    /\ frame["t1"].device = Some(MAX_CACHED_DEVICES - 1)
    /\ handle_counter = MAX_CACHED_DEVICES

\* C40: a device has at most one recording in progress, and the active map is
\* exact: a stored recording is in progress if and only if it is the active
\* recording of its device, every active recording is stored, and add_event
\* succeeds only on the active recording of a device.
C40_ActiveMapIsExact ==
    /\ \A i, j \in 1..Len(_recordings) :
          ( /\ _recordings[i].is_recording
            /\ _recordings[j].is_recording
            /\ _recordings[i].device_id = _recordings[j].device_id ) => i = j
    /\ \A i \in 1..Len(_recordings) :
          _recordings[i].is_recording <=>
              /\ _recordings[i].device_id \in DOMAIN _active
              /\ _active[_recordings[i].device_id] = _recordings[i].recording_id
    /\ \A d \in DOMAIN _active : HasRecording(_recordings, _active[d])
    /\ ("add_event" \in DOMAIN result["t1"] /\ result["t1"].returned) =>
          /\ result["t1"].device_id \in DOMAIN _active
          /\ _active[result["t1"].device_id] = result["t1"].add_event

=============================================================================
